---------------------------- MODULE Spec2Model ----------------------------
(***************************************************************************)
(* Nyay Sathi backend: the agentic tool-calling loop (backend/agent.py),   *)
(* its tool dispatcher and the trusted-domain browser (backend/browser.py).*)
(*                                                                         *)
(* Strings are sequences of one-character strings, so that lower(),        *)
(* strip(), rstrip(), json.loads() and urlparse() are computed character   *)
(* by character as the Python code computes them.                          *)
(***************************************************************************)
EXTENDS Naturals, Integers, Sequences, FiniteSets, TLC

(***************************************************************************)
(* Bounds of the model                                                     *)
(***************************************************************************)
MaxIter == 2        \* largest max_iterations a run is started with
MaxCalls == 2       \* most tool calls one oracle response carries
MaxTools == 2       \* most tool calls requested over one run
MaxPad == 1         \* most characters put before a query's core word
MaxTail == 2        \* most characters put after a query's core word

(***************************************************************************)
(* Python str helpers                                                      *)
(***************************************************************************)
Whitespace == {" ", "\t", "\n", "\r"}

UpperToLower ==
    [c \in {"A","B","C","D","E","F","G","H","I","J","K","L","M","N","O","P",
            "Q","R","S","T","U","V","W","X","Y","Z"} |->
        CASE c = "A" -> "a" [] c = "B" -> "b" [] c = "C" -> "c" [] c = "D" -> "d"
          [] c = "E" -> "e" [] c = "F" -> "f" [] c = "G" -> "g" [] c = "H" -> "h"
          [] c = "I" -> "i" [] c = "J" -> "j" [] c = "K" -> "k" [] c = "L" -> "l"
          [] c = "M" -> "m" [] c = "N" -> "n" [] c = "O" -> "o" [] c = "P" -> "p"
          [] c = "Q" -> "q" [] c = "R" -> "r" [] c = "S" -> "s" [] c = "T" -> "t"
          [] c = "U" -> "u" [] c = "V" -> "v" [] c = "W" -> "w" [] c = "X" -> "x"
          [] c = "Y" -> "y" [] c = "Z" -> "z"]

\* str.lower()
Lower(s) ==
    [i \in 1..Len(s) |-> IF s[i] \in DOMAIN UpperToLower THEN UpperToLower[s[i]] ELSE s[i]]

RECURSIVE LStripChars(_, _)
\* str.lstrip(chars)
LStripChars(s, chars) ==
    IF s # <<>> /\ Head(s) \in chars THEN LStripChars(Tail(s), chars) ELSE s

RECURSIVE RStripChars(_, _)
\* str.rstrip(chars)
RStripChars(s, chars) ==
    IF s # <<>> /\ s[Len(s)] \in chars
    THEN RStripChars(SubSeq(s, 1, Len(s) - 1), chars)
    ELSE s

\* str.strip()
Strip(s) == RStripChars(LStripChars(s, Whitespace), Whitespace)

\* str.startswith / str.endswith / `in`
StartsWith(s, p) == Len(p) <= Len(s) /\ SubSeq(s, 1, Len(p)) = p
EndsWith(s, p) == Len(p) <= Len(s) /\ SubSeq(s, Len(s) - Len(p) + 1, Len(s)) = p
Contains(s, p) ==
    Len(p) <= Len(s) /\ \E i \in 0..(Len(s) - Len(p)) : SubSeq(s, i + 1, i + Len(p)) = p

\* the character at position i, "" past either end
At(s, i) == IF i \in 1..Len(s) THEN s[i] ELSE ""

\* str.replace(a, b) for single characters
ReplaceChar(s, a, b) == [i \in 1..Len(s) |-> IF s[i] = a THEN b ELSE s[i]]

(***************************************************************************)
(* _is_greeting                                                            *)
(***************************************************************************)
greetings ==
    { <<"h","i">>,
      <<"h","e","l","l","o">>,
      <<"h","e","y">>,
      <<"g","o","o","d"," ","m","o","r","n","i","n","g">>,
      <<"g","o","o","d"," ","e","v","e","n","i","n","g">>,
      <<"g","o","o","d"," ","a","f","t","e","r","n","o","o","n">>,
      <<"n","a","m","a","s","t","e">>,
      <<"n","a","m","a","s","k","a","r">>,
      <<"t","h","a","n","k","s">>,
      <<"t","h","a","n","k"," ","y","o","u">>,
      <<"b","y","e">>,
      <<"g","o","o","d","b","y","e">> }

TrailingPunct == {"!", ".", ",", "?"}

\* normalized = query.lower().strip().rstrip("!.,?")
Normalize(query) == RStripChars(Strip(Lower(query)), TrailingPunct)

\* _is_greeting without the strip(): query.lower().rstrip("!.,?")
IsGreeting_NoStrip(query) ==
    RStripChars(Lower(query), TrailingPunct) \in greetings
    \/ Len(RStripChars(Lower(query), TrailingPunct)) < 4

IsGreeting(query) ==
    LET normalized == Normalize(query)
    IN  normalized \in greetings \/ Len(normalized) < 4

(***************************************************************************)
(* json.loads on the JSON subset the enumerated argument strings use:      *)
(* strings without escapes, integers, null/true/false, and objects and     *)
(* lists of these.                                                         *)
(* A parsed value is [kind, s, items]: s holds a string's characters,      *)
(* items an object's members <<key, value>> in source order.               *)
(***************************************************************************)
JsonWs == {" ", "\t", "\n", "\r"}
Digits == {"0","1","2","3","4","5","6","7","8","9"}

JStr(chars) == [kind |-> "str", s |-> chars, items |-> <<>>]
JDict(members) == [kind |-> "dict", s |-> <<>>, items |-> members]
JOther(k) == [kind |-> k, s |-> <<>>, items |-> <<>>]

ParseFail == [ok |-> FALSE, val |-> JOther("null"), next |-> 0]
ParseOk(v, n) == [ok |-> TRUE, val |-> v, next |-> n]

RECURSIVE SkipWs(_, _)
SkipWs(s, i) == IF At(s, i) \in JsonWs THEN SkipWs(s, i + 1) ELSE i

RECURSIVE StringEnd(_, _)
\* index of the closing quote of the string whose body starts at i, 0 if none
StringEnd(s, i) ==
    IF i > Len(s) \/ s[i] \in {"\\", "\n", "\t", "\r"} THEN 0
    ELSE IF s[i] = "\"" THEN i
    ELSE StringEnd(s, i + 1)

ParseString(s, i) ==
    LET e == StringEnd(s, i + 1)
    IN  IF At(s, i) = "\"" /\ e # 0
        THEN ParseOk(JStr(SubSeq(s, i + 1, e - 1)), e + 1)
        ELSE ParseFail

RECURSIVE DigitsEnd(_, _)
DigitsEnd(s, i) == IF At(s, i) \in Digits THEN DigitsEnd(s, i + 1) ELSE i

ParseLiteral(s, i, word, kind) ==
    IF SubSeq(s, i, i + Len(word) - 1) = word /\ i + Len(word) - 1 <= Len(s)
    THEN ParseOk(JOther(kind), i + Len(word))
    ELSE ParseFail

\* a value that holds no other value: a string, an integer, null, true, false
ParseScalar(s, i0) ==
    LET i == SkipWs(s, i0)
        c == At(s, i)
    IN  CASE c = "\"" -> ParseString(s, i)
          [] c \in Digits -> ParseOk(JOther("num"), DigitsEnd(s, i))
          [] c = "n" -> ParseLiteral(s, i, <<"n","u","l","l">>, "null")
          [] c = "t" -> ParseLiteral(s, i, <<"t","r","u","e">>, "bool")
          [] c = "f" -> ParseLiteral(s, i, <<"f","a","l","s","e">>, "bool")
          [] OTHER -> ParseFail

RECURSIVE ParseMembers(_, _, _)
\* the members of an object after "{" or ","; i is at the expected key
ParseMembers(s, i, acc) ==
    LET k == ParseString(s, SkipWs(s, i))
        c == SkipWs(s, k.next)
        v == ParseScalar(s, c + 1)
        e == SkipWs(s, v.next)
    IN  IF ~k.ok \/ At(s, c) # ":" \/ ~v.ok THEN ParseFail
        ELSE IF At(s, e) = "," THEN ParseMembers(s, e + 1, Append(acc, <<k.val.s, v.val>>))
        ELSE IF At(s, e) = "}" THEN ParseOk(JDict(Append(acc, <<k.val.s, v.val>>)), e + 1)
        ELSE ParseFail

RECURSIVE ParseElements(_, _)
\* the elements of a list after "[" or ","; i is at the expected element
ParseElements(s, i) ==
    LET v == ParseScalar(s, i)
        e == SkipWs(s, v.next)
    IN  IF ~v.ok THEN ParseFail
        ELSE IF At(s, e) = "," THEN ParseElements(s, e + 1)
        ELSE IF At(s, e) = "]" THEN ParseOk(JOther("list"), e + 1)
        ELSE ParseFail

ParseValue(s, i0) ==
    LET i == SkipWs(s, i0)
        c == At(s, i)
    IN  CASE c = "{" ->
               IF At(s, SkipWs(s, i + 1)) = "}"
               THEN ParseOk(JDict(<<>>), SkipWs(s, i + 1) + 1)
               ELSE ParseMembers(s, i + 1, <<>>)
          [] c = "[" ->
               IF At(s, SkipWs(s, i + 1)) = "]"
               THEN ParseOk(JOther("list"), SkipWs(s, i + 1) + 1)
               ELSE ParseElements(s, i + 1)
          [] OTHER -> ParseScalar(s, i)

\* json.loads(s): [ok |-> FALSE] stands for the exception it raises
JsonLoads(s) ==
    LET v == ParseValue(s, 1)
    IN  IF v.ok /\ SkipWs(s, v.next) = Len(s) + 1 THEN v ELSE ParseFail

IsDict(args) == args.kind = "dict"

RECURSIVE LastMember(_, _, _)
LastMember(members, key, default) ==
    IF members = <<>> THEN default
    ELSE IF members[Len(members)][1] = key THEN members[Len(members)][2]
    ELSE LastMember(SubSeq(members, 1, Len(members) - 1), key, default)

\* args.get(key, "") on a dict
DictGet(args, key) == LastMember(args.items, key, JStr(<<>>))

(***************************************************************************)
(* urlparse(url).netloc and is_trusted_domain                              *)
(***************************************************************************)
SchemeChars ==
    {"a","b","c","d","e","f","g","h","i","j","k","l","m","n","o","p","q","r","s","t",
     "u","v","w","x","y","z"} \cup DOMAIN UpperToLower \cup Digits \cup {"+", "-", "."}

RECURSIVE IndexOfAny(_, _, _)
\* first index >= i of a character of chars, Len(s) + 1 if none
IndexOfAny(s, chars, i) ==
    IF i > Len(s) THEN Len(s) + 1
    ELSE IF s[i] \in chars THEN i
    ELSE IndexOfAny(s, chars, i + 1)

\* the url with its scheme and the colon removed, when it has a scheme
AfterScheme(url) ==
    LET i == IndexOfAny(url, {":"}, 1)
    IN  IF i \in 2..Len(url)
           /\ url[1] \notin Digits \cup {"+", "-", "."}
           /\ \A j \in 1..(i - 1) : url[j] \in SchemeChars
        THEN SubSeq(url, i + 1, Len(url))
        ELSE url

Netloc(url) ==
    LET rest == AfterScheme(url)
    IN  IF StartsWith(rest, <<"/", "/">>)
        THEN SubSeq(rest, 3, IndexOfAny(rest, {"/", "?", "#"}, 3) - 1)
        ELSE <<>>

TRUSTED_DOMAINS ==
    { <<"i","n","d","i","a","c","o","d","e",".","n","i","c",".","i","n">>,
      <<"l","e","g","i","s","l","a","t","i","v","e",".","g","o","v",".","i","n">>,
      <<"l","a","w","m","i","n",".","g","o","v",".","i","n">>,
      <<"i","n","d","i","a",".","g","o","v",".","i","n">>,
      <<"d","o","j",".","g","o","v",".","i","n">>,
      <<"m","a","i","n",".","s","c","i",".","g","o","v",".","i","n">>,
      <<"n","i","t","i",".","g","o","v",".","i","n">>,
      <<"p","r","s","i","n","d","i","a",".","o","r","g">>,
      <<"i","n","d","i","a","n","k","a","n","o","o","n",".","o","r","g">>,
      <<"l","e","g","a","l","s","e","r","v","i","c","e","i","n","d","i","a",".","c","o","m">>,
      <<"e","n",".","w","i","k","i","p","e","d","i","a",".","o","r","g">> }

\* url is a parsed JSON value: anything but a string makes urlparse raise,
\* which is_trusted_domain turns into False
is_trusted_domain(url) ==
    IF url.kind # "str" THEN FALSE
    ELSE LET netloc == Lower(Netloc(url.s))
             domain == IF StartsWith(netloc, <<"w","w","w",".">>)
                       THEN SubSeq(netloc, 5, Len(netloc))
                       ELSE netloc
         IN  \/ EndsWith(domain, <<".","g","o","v",".","i","n">>)
             \/ EndsWith(domain, <<".","n","i","c",".","i","n">>)
             \/ \E trusted \in TRUSTED_DOMAINS : Contains(domain, trusted)

(***************************************************************************)
(* Tool results and the oracles' outcomes                                  *)
(*                                                                         *)
(* A ToolResult is [status, data, reason]; data is [kind, items] with kind *)
(* "none" when the Python dict has no "data" key.  A data item is          *)
(* [index, ref, len]: ref is the section number (retrieval) or the url     *)
(* (web), len the length of the text carried.                              *)
(***************************************************************************)
NoData == [kind |-> "none", items |-> <<>>]
ListData(items) == [kind |-> "list", items |-> items]
DictData(item) == [kind |-> "dict", items |-> <<item>>]

ToolResult(status, data, reason) == [status |-> status, data |-> data, reason |-> reason]

Min(a, b) == IF a <= b THEN a ELSE b

RAG_TOP == 3            \* results[:3]
RAG_TEXT_CHARS == 800   \* r.get("text", "")[:800]
PAGE_TEXT_CHARS == 2000 \* content.text[:2000]
SANITIZED_PAGE_CHARS == 3000  \* sanitize_web_content(content, 3000)
SEARCH_MAX_RESULTS == 3 \* max_results of BrowserSearch.search
TRANSCRIPT_BUDGET == 3000     \* if len(result_str) > 3000
TruncationSuffix == <<".", ".", ".", "\"", "}">>   \* '..."}'
RESULT_FRAME == 33      \* json.dumps: the characters around a result's data
ITEM_FRAME == 64        \* json.dumps: the characters around one item's texts

\* the outcome the environment gives one tool call:
\*   rag_raises   retrieve() raises          docs    what retrieve() returns
\*   start_fails  the browser launch raises  nav_fails  page.goto raises
\*   links        the hrefs on the result page   text_len  the page's text length
Outcome(rag_raises, docs, start_fails, nav_fails, links, text_len) ==
    [rag_raises |-> rag_raises, docs |-> docs, start_fails |-> start_fails,
     nav_fails |-> nav_fails, links |-> links, text_len |-> text_len]

RECURSIVE FormatDocs_WholeText(_, _)
\* the records that keep the whole text of each result
FormatDocs_WholeText(docs, i) ==
    IF docs = <<>> \/ i > RAG_TOP THEN <<>>
    ELSE <<[index |-> i, ref |-> Head(docs).section, len |-> Head(docs).text_len,
            esc |-> Head(docs).escapes]>>
         \o FormatDocs_WholeText(Tail(docs), i + 1)

RECURSIVE FormatDocs(_, _)
\* for i, r in enumerate(results[:3], 1): {"index": i, ..., "text": text[:800]}
FormatDocs(docs, i) ==
    IF docs = <<>> \/ i > RAG_TOP THEN <<>>
    ELSE <<[index |-> i, ref |-> Head(docs).section,
            len |-> Min(Head(docs).text_len, RAG_TEXT_CHARS),
            esc |-> Min(Head(docs).escapes, Min(Head(docs).text_len, RAG_TEXT_CHARS))]>>
         \o FormatDocs(Tail(docs), i + 1)

RECURSIVE TrustedLinks(_, _)
\* BrowserSearch.search: the trusted hrefs among links, at most max_results
TrustedLinks(links, found) ==
    IF links = <<>> \/ found >= SEARCH_MAX_RESULTS THEN <<>>
    ELSE IF Head(links) = <<>> \/ ~is_trusted_domain(JStr(Head(links)))
         THEN TrustedLinks(Tail(links), found)
         ELSE <<Head(links)>> \o TrustedLinks(Tail(links), found + 1)

\* BrowserSearch.start: [raised, started]
BrowserStart(started, out) ==
    IF started THEN [raised |-> FALSE, started |-> TRUE]
    ELSE IF out.start_fails THEN [raised |-> TRUE, started |-> FALSE]
    ELSE [raised |-> FALSE, started |-> TRUE]

\* BrowserSearch.search after await self.start() gave st
SearchAfterStart(st, out) ==
    IF st.raised
    THEN [raised |-> TRUE, started |-> st.started, results |-> <<>>,
          ops |-> {<<"search", <<>>>>}]
    ELSE [raised |-> FALSE, started |-> st.started,
          results |-> IF out.nav_fails THEN <<>>
                      ELSE TrustedLinks(SubSeq(out.links, 1,
                               Min(Len(out.links), SEARCH_MAX_RESULTS * 3)), 0),
          ops |-> {<<"search", <<>>>>}]

\* BrowserSearch.search: [raised, started, results, ops]
BrowserSearch_search(started, out) == SearchAfterStart(BrowserStart(started, out), out)

NoPage == [ok |-> FALSE, text_len |-> 0]

\* BrowserSearch.read_page after await self.start() gave st
ReadAfterStart(url, st, out) ==
    IF st.raised
    THEN [raised |-> TRUE, started |-> st.started, page |-> NoPage,
          ops |-> {<<"start", url.s>>}]
    ELSE [raised |-> FALSE, started |-> st.started,
          page |-> IF out.nav_fails THEN NoPage
                   ELSE [ok |-> TRUE, text_len |-> Min(out.text_len, SANITIZED_PAGE_CHARS)],
          ops |-> {<<"start", url.s>>, <<"goto", url.s>>}]

\* read_page that starts the browser before it checks the domain
BrowserSearch_read_page_StartFirst(url, started, out) ==
    IF ~is_trusted_domain(url)
    THEN [raised |-> BrowserStart(started, out).raised,
          started |-> BrowserStart(started, out).started, page |-> NoPage,
          ops |-> {<<"start", url.s>>}]
    ELSE ReadAfterStart(url, BrowserStart(started, out), out)

\* BrowserSearch.read_page: [raised, started, page, ops]; page.ok = FALSE is None
BrowserSearch_read_page(url, started, out) ==
    IF ~is_trusted_domain(url)
    THEN [raised |-> FALSE, started |-> started, page |-> NoPage, ops |-> {}]
    ELSE ReadAfterStart(url, BrowserStart(started, out), out)

Raised(exc, started, ops) ==
    [raised |-> TRUE, exc |-> exc, result |-> ToolResult("", NoData, ""),
     started |-> started, ops |-> ops]
Returned(result, started, ops) ==
    [raised |-> FALSE, exc |-> "", result |-> result, started |-> started, ops |-> ops]

\* rag_search reporting an empty retrieval as an error
RagSearch_EmptyIsError(out, started) ==
    IF out.rag_raises THEN Raised("retrieve failed", started, {})
    ELSE IF out.docs = <<>>
    THEN Returned(ToolResult("error", NoData, "no results"), started, {})
    ELSE Returned(ToolResult("success", ListData(FormatDocs(out.docs, 1)), ""), started, {})

\* execute_tool, name == "rag_search"
RagSearch(out, started) ==
    IF out.rag_raises THEN Raised("retrieve failed", started, {})
    ELSE IF out.docs = <<>>
    THEN Returned(ToolResult("no_results", ListData(<<>>), ""), started, {})
    ELSE Returned(ToolResult("success", ListData(FormatDocs(out.docs, 1)), ""), started, {})

\* execute_tool, name == "web_search", after browser["search"](query) gave r
WebSearch(r) ==
    IF r.raised THEN Raised("browser launch failed", r.started, r.ops)
    ELSE IF r.results = <<>>
    THEN Returned(ToolResult("no_results", ListData(<<>>), ""), r.started, r.ops)
    ELSE Returned(ToolResult("success",
                     ListData([i \in 1..Len(r.results) |->
                                 [index |-> i, ref |-> r.results[i], len |-> 0, esc |-> 0]]), ""),
                  r.started, r.ops)

\* execute_tool, name == "read_url", after browser["read"](url) gave r
ReadUrl(url, r) ==
    IF r.raised THEN Raised("browser launch failed", r.started, r.ops)
    ELSE IF ~r.page.ok
    THEN Returned(ToolResult("blocked", NoData, "URL not from trusted domain"),
                  r.started, r.ops)
    ELSE Returned(ToolResult("success",
                     DictData([index |-> 0, ref |-> url.s,
                               len |-> Min(r.page.text_len, PAGE_TEXT_CHARS),
                               esc |-> 0]), ""),
                  r.started, r.ops)

\* execute_tool(name, args) under the outcome out, with the browser started or not:
\* [raised, exc, result, started, ops]; raised = TRUE is an exception leaving it
execute_tool(name, args, out, started) ==
    CASE name = "rag_search" ->
           IF ~IsDict(args) THEN Raised("AttributeError", started, {})
           ELSE RagSearch(out, started)
      [] name = "web_search" ->
           IF ~IsDict(args) THEN Raised("AttributeError", started, {})
           ELSE WebSearch(BrowserSearch_search(started, out))
      [] name = "read_url" ->
           IF ~IsDict(args) THEN Raised("AttributeError", started, {})
           ELSE ReadUrl(DictGet(args, <<"u","r","l">>),
                        BrowserSearch_read_page(DictGet(args, <<"u","r","l">>), started, out))
      [] OTHER ->
           Returned(ToolResult("error", NoData, "Unknown tool: " \o name), started, {})

\* the call made without the try: the exception leaves it
Absorb_Propagate(r) == r

\* the handler that drops the exception's message
Absorb_NoReason(r) ==
    IF r.raised THEN Returned(ToolResult("error", NoData, ""), r.started, r.ops) ELSE r

\* try: result = await execute_tool(name, args)
\* except Exception as e: result = {"status": "error", "reason": str(e)}
Absorb(r) ==
    IF r.raised THEN Returned(ToolResult("error", NoData, r.exc), r.started, r.ops) ELSE r

\* the agent loop's call of execute_tool inside that try
Dispatch(name, args, out, started) == Absorb(execute_tool(name, args, out, started))

(***************************************************************************)
(* The tool menu and the oracle's responses                                *)
(*                                                                         *)
(* A response's text is a sequence of tokens: the pieces the pseudo-tag    *)
(* pattern cuts it into (an opening tag <name>, a closing tag </name>,     *)
(* the generic closing marker </function>, or other text).                 *)
(***************************************************************************)
\* TOOLS, by name, in the order of the list
TOOLS == <<"rag_search", "web_search", "read_url">>

TagChars(name) ==
    CASE name = "rag_search" -> <<"r","a","g","_","s","e","a","r","c","h">>
      [] name = "web_search" -> <<"w","e","b","_","s","e","a","r","c","h">>
      [] name = "read_url" -> <<"r","e","a","d","_","u","r","l">>
      [] OTHER -> <<"f","u","n","c","t","i","o","n">>

OpenTag(name) == [t |-> "open", name |-> name, s |-> <<"<">> \o TagChars(name) \o <<">">>]
CloseTag(name) ==
    [t |-> "close", name |-> name, s |-> <<"<", "/">> \o TagChars(name) \o <<">">>]
CloseFunction == CloseTag("function")
Text(chars) == [t |-> "text", name |-> "", s |-> chars]

RECURSIVE Render(_)
\* the characters of a run of tokens
Render(tokens) == IF tokens = <<>> THEN <<>> ELSE Head(tokens).s \o Render(Tail(tokens))

RECURSIVE GroupEnd(_, _, _)
\* (?:</t_name>|</function>|$): the first token at or after i that ends the group
GroupEnd(content, t_name, i) ==
    IF i > Len(content) THEN Len(content) + 1
    ELSE IF content[i].t = "close" /\ content[i].name \in {t_name, "function"} THEN i
    ELSE GroupEnd(content, t_name, i + 1)

RECURSIVE FindIter(_, _, _)
\* re.finditer(f"<{t_name}>(.*?)(?:</{t_name}>|</function>|$)", content):
\* the (t_name, m.group(1)) pairs, left to right
FindIter(content, t_name, i) ==
    IF i > Len(content) THEN <<>>
    ELSE IF content[i].t = "open" /\ content[i].name = t_name
    THEN LET e == GroupEnd(content, t_name, i + 1)
         IN  <<[name |-> t_name, arguments |-> Render(SubSeq(content, i + 1, e - 1))]>>
             \o FindIter(content, t_name, e + 1)
    ELSE FindIter(content, t_name, i + 1)

RECURSIVE ToolMatches(_, _)
\* for tool_def in TOOLS: for m in matches: tool_matches.append(...)
ToolMatches(content, k) ==
    IF k > Len(TOOLS) THEN <<>>
    ELSE FindIter(content, TOOLS[k], 1) \o ToolMatches(content, k + 1)

\* the structured path: json.loads(arguments), {} when it raises
StructuredArgs(arguments) ==
    LET v == JsonLoads(arguments)
    IN  IF v.ok THEN v.val ELSE JDict(<<>>)

\* the chain without the retry on the cleaned blob
PseudoArgs_NoRetry(args_str) ==
    IF JsonLoads(args_str).ok THEN JsonLoads(args_str).val
    ELSE JDict(<< <<<<"q","u","e","r","y">>, JStr(Strip(args_str))>>,
                  <<<<"u","r","l">>, JStr(Strip(args_str))>> >>)

\* the pseudo-tag path: json.loads, then with ' replaced by ", then the blob itself
PseudoArgs(args_str) ==
    LET v == JsonLoads(args_str)
        cleaned == ReplaceChar(Strip(args_str), "'", "\"")
        w == JsonLoads(cleaned)
    IN  IF v.ok THEN v.val
        ELSE IF w.ok THEN w.val
        ELSE JDict(<< <<<<"q","u","e","r","y">>, JStr(Strip(args_str))>>,
                      <<<<"u","r","l">>, JStr(Strip(args_str))>> >>)

\* args.get("query", args.get("url", "")) of the tool_start event: FALSE is the
\* AttributeError a non-dict args raises
ToolStartOk(args) == IsDict(args)

\* the directive left to the oracle on every iteration
ToolChoice_AlwaysAuto(iteration, query) == "auto"

\* the tool-choice directive of one iteration
ToolChoice(iteration, query) ==
    IF iteration = 0 /\ ~IsGreeting(query) THEN "rag_search" ELSE "auto"

\* Determine mode based on tools used
Mode(tools_used) ==
    IF \E i \in 1..Len(tools_used) : tools_used[i].name = "web_search" THEN "hybrid"
    ELSE IF \E i \in 1..Len(tools_used) : tools_used[i].name = "rag_search" THEN "grounded"
    ELSE "fallback"

\* Confidence (run_agent_streaming)
Confidence(mode) ==
    IF mode = "grounded" THEN "high" ELSE IF mode = "hybrid" THEN "medium" ELSE "low"

(***************************************************************************)
(* One agent run                                                           *)
(***************************************************************************)
VARIABLES
    variant,          \* "batch" (run_agent) or "stream" (run_agent_streaming)
    query,            \* the query of the run
    max_iterations,   \* the iteration cap of the run
    api_key,          \* TRUE when GROQ_API_KEY is set
    pc,               \* position of the run: start, loop, llm, tools, exec, done
    iteration,        \* the loop counter
    oracle_calls,     \* the tool-choice directive of every oracle call made, in order
    llm_log,          \* what the oracle did on every call, in order
    messages,         \* the transcript
    tools_used,       \* the tool-usage log
    total_tokens_in,
    total_tokens_out,
    path,             \* "structured" or "pseudo": how the pending calls were declared
    pending,          \* the calls of the current response not yet dispatched
    cur_args,         \* the parsed arguments of the call being dispatched
    tool_results,     \* pseudo-tag path: the results collected for the user turn
    events,           \* the events yielded so far (stream)
    result,           \* the value returned (batch)
    browser_started,  \* BrowserSearch.browser is not None
    fetch_ops,        \* browser operations done, each <<operation, url>>
    tool_call,        \* the last direct call of execute_tool and what it gave
    other_run,        \* the suspended run of a pair: its name and its locals
    explain_call,     \* the last call of explain_with_llm and what it gave
    start_tasks,      \* BrowserSearch: its handle, the browsers launched, its callers
    rate_limit        \* RateLimitMiddleware: the clock, self.requests, what it did

vars == <<variant, query, max_iterations, api_key, pc, iteration, oracle_calls, llm_log,
          messages, tools_used, total_tokens_in, total_tokens_out, path, pending,
          cur_args, tool_results, events, result, browser_started, fetch_ops,
          tool_call, other_run, explain_call, start_tasks, rate_limit>>

\* the state outside the agent loop and its tools
serviceVars == <<explain_call, start_tasks, rate_limit>>

runVars == <<variant, query, max_iterations, api_key, pc, iteration, oracle_calls,
             llm_log, messages, tools_used, total_tokens_in, total_tokens_out, path,
             pending, cur_args, tool_results, events, result>>

\* ---- texts -----------------------------------------------------------------
\* an answer text: a fixed text, the oracle's content, or a fixed text with the
\* message of an exception
Answer(fixed, content, exc) == [fixed |-> fixed, content |-> content, exc |-> exc]

NotConfigured == Answer("API key not configured.", <<>>, "")
NotConfiguredEvent == Answer("API key not configured", <<>>, "")
NoResponse == Answer("I couldn't generate a response.", <<>>, "")
StepsExceeded ==
    Answer("I couldn't complete the request within the allowed steps.", <<>>, "")
ErrorOccurred(exc) == Answer("An error occurred: ", <<>>, exc)
ErrorMessage(exc) == Answer("", <<>>, exc)

\* answer = message.content or "I couldn't generate a response."
FinalText(content) == IF content = <<>> THEN NoResponse ELSE Answer("", content, "")

\* ---- values returned and yielded --------------------------------------------
NoResult ==
    [answer |-> Answer("", <<>>, ""), mode |-> "none", tools_used |-> <<>>,
     tokens_in |-> 0, tokens_out |-> 0]

Result(answer, mode, used, tin, tout) ==
    [answer |-> answer, mode |-> mode, tools_used |-> used,
     tokens_in |-> tin, tokens_out |-> tout]

\* if not GROQ_API_KEY: return {...}
ConfigErrorResult == Result(NotConfigured, "error", <<>>, 0, 0)

\* the error result built like the configuration error: no log, no totals
LlmErrorResult_Reset(exc, used, tin, tout) == Result(ErrorOccurred(exc), "error", <<>>, 0, 0)

\* except Exception as e: return {...}
LlmErrorResult(exc, used, tin, tout) == Result(ErrorOccurred(exc), "error", used, tin, tout)

\* Max iterations reached
ExhaustedResult(used, tin, tout) == Result(StepsExceeded, "fallback", used, tin, tout)

\* No tool calls - LLM is done
FinalResult(content, used, tin, tout) == Result(FinalText(content), Mode(used), used, tin, tout)

Event(type, message, tool, status) ==
    [type |-> type, message |-> message, tool |-> tool, status |-> status,
     answer |-> Answer("", <<>>, ""), mode |-> "", confidence |-> "",
     tokens_in |-> 0, tokens_out |-> 0, local |-> <<>>, web |-> <<>>]

ErrorEvent(text) == [Event("error", "", "", "") EXCEPT !.answer = text]

AnswerEvent(text, mode, confidence, tin, tout) ==
    [Event("answer", "", "", "") EXCEPT !.answer = text, !.mode = mode,
        !.confidence = confidence, !.tokens_in = tin, !.tokens_out = tout]

RECURSIVE Sources(_, _)
\* Extract sources: the data items of the successful calls of one tool
Sources(used, name) ==
    IF used = <<>> THEN <<>>
    ELSE (IF Head(used).name = name /\ Head(used).result = "success"
             /\ Head(used).data.kind = "list"
          THEN Head(used).data.items ELSE <<>>)
         \o Sources(Tail(used), name)

\* the terminal branch yielding its answer before the rest
FinalEvents_AnswerFirst(content, used, tin, tout) ==
    <<AnswerEvent(FinalText(content), Mode(used), Confidence(Mode(used)), tin, tout),
      Event("status", "Generating response", "", "")>>

\* the events of the terminal branch: status, sources (if any), answer
FinalEvents(content, used, tin, tout) ==
    LET local == Sources(used, "rag_search")
        web == Sources(used, "web_search")
    IN  <<Event("status", "Generating response", "", "")>>
        \o (IF local # <<>> \/ web # <<>>
            THEN <<[Event("sources", "", "", "") EXCEPT !.local = local, !.web = web]>>
            ELSE <<>>)
        \o <<AnswerEvent(FinalText(content), Mode(used), Confidence(Mode(used)), tin, tout)>>

\* the label that takes every mode but fallback for a grounded one
AskConfidence_LowOnlyForFallback(mode) ==
    IF mode = "fallback" THEN "low" ELSE IF mode = "hybrid" THEN "medium" ELSE "high"

\* ask_question: Determine confidence from mode
AskConfidence(mode) ==
    IF mode = "grounded" THEN "high" ELSE IF mode = "hybrid" THEN "medium" ELSE "low"

\* ask_question: the AskResponse built from the result of run_agent
ask_question(r) ==
    [mode |-> r.mode, confidence |-> AskConfidence(r.mode), answer |-> r.answer,
     tokens_in |-> r.tokens_in, tokens_out |-> r.tokens_out,
     local_sources |-> Sources(r.tools_used, "rag_search"),
     web_sources |-> Sources(r.tools_used, "web_search")]

\* ---- transcript ---------------------------------------------------------------
NoContent == [taken |-> 0, suffix |-> <<>>]
Message(role, kind, results) ==
    [role |-> role, kind |-> kind, results |-> results, content |-> NoContent]

RECURSIVE ItemsLen(_)
\* the characters json.dumps writes for the items of a result's data
ItemsLen(items) ==
    IF items = <<>> THEN 0
    ELSE ITEM_FRAME + Len(Head(items).ref) + Head(items).len + Head(items).esc
         + ItemsLen(Tail(items))

\* len(json.dumps(result, ensure_ascii=False)), for the shortest fixed fields
SerializedLen(res) == RESULT_FRAME + ItemsLen(res.data.items)

\* the truncation that keeps the budget for the suffix too
ToolContent_CutToFit(res) ==
    IF SerializedLen(res) > TRANSCRIPT_BUDGET
    THEN [taken |-> TRANSCRIPT_BUDGET - Len(TruncationSuffix), suffix |-> TruncationSuffix]
    ELSE [taken |-> SerializedLen(res), suffix |-> <<>>]

\* result_str, cut: the characters taken from the serialized result, and the suffix
ToolContent(res) ==
    IF SerializedLen(res) > TRANSCRIPT_BUDGET
    THEN [taken |-> TRANSCRIPT_BUDGET, suffix |-> TruncationSuffix]
    ELSE [taken |-> SerializedLen(res), suffix |-> <<>>]

\* messages.append({"role": "tool", "tool_call_id": ..., "content": result_str})
ToolMessage(res) ==
    [Message("tool", "result", <<res>>) EXCEPT !.content = ToolContent(res)]

\* the record that does not take the status from the result
UsageRecord_Success(name, args, r) ==
    [name |-> name, args |-> args, result |-> "success", data |-> r.data]

\* tools_used.append({"name", "args", "result": result["status"], "data"})
UsageRecord(name, args, r) ==
    [name |-> name, args |-> args, result |-> r.status, data |-> r.data]

(***************************************************************************)
(* Inputs: queries, oracle responses, tool outcomes                        *)
(***************************************************************************)
Strings(chars, n) == UNION {[1..k -> chars] : k \in 0..n}

CoreWords ==
    { <<"h","e","l","l","o">>, <<"H","e","l","l","o">>, <<"T","H","A","N","K","S">>,
      <<"h","e","y">>, <<"h","e","l","p">>, <<"t","h","e","f","t">> }

\* a core word with up to MaxPad characters before and MaxTail after it
Queries ==
    { p \o w \o t : p \in Strings({" ", "!"}, MaxPad), w \in CoreWords,
                    t \in Strings({" ", "!", "?"}, MaxTail) }

\* the queries of the runs explored with every oracle behaviour
RunQueries == { <<"h","e","l","l","o","!">>, <<"t","h","e","f","t">> }

Variants == {"batch", "stream"}

JObject(key, value) ==
    <<"{", "\"">> \o key \o <<"\"", ":", " ", "\"">> \o value \o <<"\"", "}">>

K_query == <<"q","u","e","r","y">>
K_url == <<"u","r","l">>
S_theft == <<"t","h","e","f","t">>
U_kanoon == <<"h","t","t","p","s",":","/","/","i","n","d","i","a","n","k","a","n","o","o","n",".","o","r","g","/","d","o","c","/","1">>
U_untrusted == <<"h","t","t","p",":","/","/","u","n","t","r","u","s","t","e","d",".","e","x","a","m","p","l","e">>

A_query == JObject(K_query, S_theft)              \* {"query": "theft"}
A_bad == <<"{", "\"">> \o K_query \o <<"\"", ":", " ">> \o S_theft   \* {"query": theft
A_list == <<"[", "]">>                            \* valid JSON, not an object
A_single == <<"{", "'">> \o K_query \o <<"'", ":", " ", "'">> \o S_theft \o <<"'", "}">>
A_quoted == <<"\"">> \o S_theft \o <<"\"">>       \* "theft": a JSON string
A_bare == <<" ">> \o S_theft \o <<" ">>           \* theft, with blanks around it
A_url_kanoon == JObject(K_url, U_kanoon)
A_url_untrusted == JObject(K_url, U_untrusted)

Call(name, arguments) == [name |-> name, arguments |-> arguments]

\* the structured tool calls an oracle response may carry
Calls ==
    { Call("rag_search", A_query), Call("rag_search", A_bad), Call("rag_search", A_list),
      Call("web_search", A_query), Call("read_url", A_url_kanoon),
      Call("read_url", A_url_untrusted), Call("lookup", A_query) }

CallSeqs == UNION {[1..k -> Calls] : k \in 1..MaxCalls}

\* response texts holding pseudo-tags
PseudoContents ==
    { <<OpenTag("rag_search"), Text(A_query), CloseTag("rag_search")>>,
      <<Text(S_theft), OpenTag("web_search"), Text(A_single), CloseFunction,
        OpenTag("rag_search"), Text(A_bare)>>,
      <<OpenTag("read_url"), Text(A_quoted), CloseTag("read_url")>> }

PlainContents == { <<>>, <<Text(S_theft)>> }

NoUsage == [present |-> FALSE, prompt_tokens |-> 0, completion_tokens |-> 0]
Usages == { NoUsage, [present |-> TRUE, prompt_tokens |-> 2, completion_tokens |-> 1] }

Response(tool_calls, content, usage) ==
    [tool_calls |-> tool_calls, content |-> content, usage |-> usage]

Responses ==
    { Response(c, <<>>, u) : c \in CallSeqs, u \in Usages }
    \cup { Response(<<>>, t, u) : t \in PseudoContents \cup PlainContents, u \in Usages }

\* the responses of the runs explored with every query
PlainResponses ==
    { Response(<<Call("rag_search", A_query)>>, <<>>, NoUsage),
      Response(<<>>, <<Text(S_theft)>>, NoUsage) }

LlmErrors == {"rate limit exceeded"}

\* a retrieved section: escapes counts the characters of its first RAG_TEXT_CHARS
\* that json.dumps writes with a backslash (quotes, newlines)
DocEscaped(section, text_len, escapes) ==
    [section |-> section, text_len |-> text_len, escapes |-> escapes]
Doc(section, text_len) == DocEscaped(section, text_len, 0)

Outcomes ==
    { Outcome(TRUE, <<>>, TRUE, FALSE, <<>>, 0),
      Outcome(FALSE, <<>>, FALSE, TRUE, <<>>, 0),
      Outcome(FALSE, <<DocEscaped(<<"3","7","8">>, 1200, 200), DocEscaped(<<"3","7","9">>, 900, 200),
                       DocEscaped(<<"3","8","0">>, 800, 200)>>,
              FALSE, FALSE, <<U_untrusted, U_kanoon>>, 5000) }

PlainOutcomes == { Outcome(FALSE, <<Doc(<<"3","7","8">>, 1200)>>, FALSE, FALSE, <<>>, 0) }

\* the tool calls a response asks for: its structured calls, else its pseudo-tags
Requested(resp) ==
    IF resp.tool_calls # <<>> THEN resp.tool_calls ELSE ToolMatches(resp.content, 1)

\* client.chat.completions.create(..., tool_choice=current_tool_choice): a response
\* to a directive naming a function carries calls of that function and no other
Honours(resp, directive) ==
    directive = "auto"
    \/ /\ resp.tool_calls # <<>>
       /\ \A i \in 1..Len(resp.tool_calls) : resp.tool_calls[i].name = directive

(***************************************************************************)
(* The steps of a run                                                      *)
(***************************************************************************)
IdleTool ==
    [name |-> "", args |-> JDict(<<>>), out |-> Outcome(FALSE, <<>>, FALSE, FALSE, <<>>, 0),
     started_before |-> FALSE, raw |-> Returned(ToolResult("", NoData, ""), FALSE, {}),
     dispatched |-> Returned(ToolResult("", NoData, ""), FALSE, {})]

\* no second run
NoOtherRun == [id |-> "none", frame |-> [pc |-> "none"]]

\* nothing called outside the agent loop
NoExplain == [called |-> FALSE]
NoTasks == [called |-> FALSE]
NoRequests == [called |-> FALSE]
ServicesIdle ==
    /\ explain_call = NoExplain
    /\ start_tasks = NoTasks
    /\ rate_limit = NoRequests

\* the state of a run before its first step, but for the query
InitRest ==
    /\ variant \in Variants
    /\ max_iterations \in 1..MaxIter
    /\ api_key \in BOOLEAN
    /\ pc = "start"
    /\ iteration = 0
    /\ oracle_calls = <<>>
    /\ llm_log = <<>>
    /\ messages = <<>>
    /\ tools_used = <<>>
    /\ total_tokens_in = 0
    /\ total_tokens_out = 0
    /\ path = "structured"
    /\ pending = <<>>
    /\ cur_args = JDict(<<>>)
    /\ tool_results = <<>>
    /\ events = <<>>
    /\ result = NoResult
    /\ browser_started = FALSE
    /\ fetch_ops = {}
    /\ tool_call = IdleTool
    /\ other_run = NoOtherRun
    /\ ServicesIdle

Init ==
    /\ query \in RunQueries
    /\ InitRest

Emit(evs) == events' = IF variant = "stream" THEN events \o evs ELSE events
Return(r) == result' = IF variant = "batch" THEN r ELSE result

\* if not GROQ_API_KEY: the configuration error
ConfigError ==
    /\ pc = "start"
    /\ ~api_key
    /\ Return(ConfigErrorResult)
    /\ Emit(<<ErrorEvent(NotConfiguredEvent)>>)
    /\ pc' = "done"
    /\ UNCHANGED <<serviceVars, other_run, variant, query, max_iterations, api_key, iteration, oracle_calls,
                   llm_log, messages, tools_used, total_tokens_in, total_tokens_out,
                   path, pending, cur_args, tool_results, browser_started, fetch_ops,
                   tool_call>>

\* the run started without the check of the key
Start_NoKeyCheck ==
    /\ pc = "start"
    /\ Emit(<<Event("status", "Understanding your question", "", "")>>)
    /\ messages' = <<Message("system", "prompt", <<>>), Message("user", "query", <<>>)>>
    /\ pc' = "loop"
    /\ UNCHANGED <<serviceVars, other_run, variant, query, max_iterations, api_key, iteration, oracle_calls,
                   llm_log, tools_used, total_tokens_in, total_tokens_out, path, pending,
                   cur_args, tool_results, result, browser_started, fetch_ops, tool_call>>

\* the initial status event, the client and the first two turns
Start ==
    /\ pc = "start"
    /\ api_key
    /\ Emit(<<Event("status", "Understanding your question", "", "")>>)
    /\ messages' = <<Message("system", "prompt", <<>>), Message("user", "query", <<>>)>>
    /\ pc' = "loop"
    /\ UNCHANGED <<serviceVars, other_run, variant, query, max_iterations, api_key, iteration, oracle_calls,
                   llm_log, tools_used, total_tokens_in, total_tokens_out, path, pending,
                   cur_args, tool_results, result, browser_started, fetch_ops, tool_call>>

\* the loop head reached while calls of the response are still pending
BeginIteration_Early ==
    /\ pc \in {"loop", "tools"}
    /\ iteration < max_iterations
    /\ Emit(IF iteration > 0 THEN <<Event("thinking", "Analyzing results", "", "")>>
            ELSE <<>>)
    /\ oracle_calls' = Append(oracle_calls, ToolChoice(iteration, query))
    /\ pc' = "llm"
    /\ UNCHANGED <<serviceVars, other_run, variant, query, max_iterations, api_key, iteration, llm_log, messages,
                   tools_used, total_tokens_in, total_tokens_out, path, pending, cur_args,
                   tool_results, result, browser_started, fetch_ops, tool_call>>

\* the loop head yielding the thinking event in every iteration
BeginIteration_ThinkingAlways ==
    /\ pc = "loop"
    /\ iteration < max_iterations
    /\ Emit(<<Event("thinking", "Analyzing results", "", "")>>)
    /\ oracle_calls' = Append(oracle_calls, ToolChoice(iteration, query))
    /\ pc' = "llm"
    /\ UNCHANGED <<serviceVars, other_run, variant, query, max_iterations, api_key, iteration, llm_log, messages,
                   tools_used, total_tokens_in, total_tokens_out, path, pending, cur_args,
                   tool_results, result, browser_started, fetch_ops, tool_call>>

\* for iteration in range(max_iterations): up to the oracle call
BeginIteration ==
    /\ pc = "loop"
    /\ iteration < max_iterations
    /\ Emit(IF iteration > 0 THEN <<Event("thinking", "Analyzing results", "", "")>>
            ELSE <<>>)
    /\ oracle_calls' = Append(oracle_calls, ToolChoice(iteration, query))
    /\ pc' = "llm"
    /\ UNCHANGED <<serviceVars, other_run, variant, query, max_iterations, api_key, iteration, llm_log, messages,
                   tools_used, total_tokens_in, total_tokens_out, path, pending, cur_args,
                   tool_results, result, browser_started, fetch_ops, tool_call>>

\* Max iterations reached
BudgetExhausted ==
    /\ pc = "loop"
    /\ iteration >= max_iterations
    /\ Return(ExhaustedResult(tools_used, total_tokens_in, total_tokens_out))
    /\ Emit(<<AnswerEvent(StepsExceeded, "fallback", "low",
                          total_tokens_in, total_tokens_out)>>)
    /\ pc' = "done"
    /\ UNCHANGED <<serviceVars, other_run, variant, query, max_iterations, api_key, iteration, oracle_calls,
                   llm_log, messages, tools_used, total_tokens_in, total_tokens_out,
                   path, pending, cur_args, tool_results, browser_started, fetch_ops,
                   tool_call>>

LlmEntry(raised, exc, resp) ==
    [raised |-> raised, exc |-> exc, usage |-> resp.usage, asked |-> Len(Requested(resp)),
     resp |-> resp]

\* the outer except Exception as e
Abort(exc) ==
    /\ Return(LlmErrorResult(exc, tools_used, total_tokens_in, total_tokens_out))
    /\ Emit(<<ErrorEvent(ErrorMessage(exc))>>)
    /\ pc' = "done"

\* client.chat.completions.create raises
LlmRaise(exc) ==
    /\ pc = "llm"
    /\ llm_log' = Append(llm_log, LlmEntry(TRUE, exc, Response(<<>>, <<>>, NoUsage)))
    /\ Abort(exc)
    /\ UNCHANGED <<serviceVars, other_run, variant, query, max_iterations, api_key, iteration, oracle_calls,
                   messages, tools_used, total_tokens_in, total_tokens_out, path, pending,
                   cur_args, tool_results, browser_started, fetch_ops, tool_call>>

\* the total that takes the last report for the sum
TrackTokens_Overwrite(total, usage, count) == IF usage.present THEN count ELSE total

\* if response.usage: total_tokens_in += response.usage.prompt_tokens
TrackTokens(total, usage, count) == IF usage.present THEN total + count ELSE total

\* client.chat.completions.create returns resp: token totals, then the branch
LlmReturn(resp) ==
    /\ pc = "llm"
    /\ Honours(resp, oracle_calls[Len(oracle_calls)])
    /\ Len(tools_used) + Len(Requested(resp)) <= MaxTools
    /\ llm_log' = Append(llm_log, LlmEntry(FALSE, "", resp))
    /\ total_tokens_in' = TrackTokens(total_tokens_in, resp.usage, resp.usage.prompt_tokens)
    /\ total_tokens_out' =
          TrackTokens(total_tokens_out, resp.usage, resp.usage.completion_tokens)
    /\ IF resp.tool_calls # <<>>
       THEN /\ messages' = Append(messages, Message("assistant", "tool_calls", <<>>))
            /\ path' = "structured"
            /\ pending' = resp.tool_calls
            /\ tool_results' = <<>>
            /\ pc' = "tools"
            /\ UNCHANGED <<events, result>>
       ELSE IF ToolMatches(resp.content, 1) # <<>>
       THEN /\ messages' = Append(messages, Message("assistant", "content", <<>>))
            /\ path' = "pseudo"
            /\ pending' = ToolMatches(resp.content, 1)
            /\ tool_results' = <<>>
            /\ pc' = "tools"
            /\ UNCHANGED <<events, result>>
       ELSE /\ Return(FinalResult(resp.content, tools_used,
                                  total_tokens_in', total_tokens_out'))
            /\ Emit(FinalEvents(resp.content, tools_used,
                                total_tokens_in', total_tokens_out'))
            /\ pc' = "done"
            /\ UNCHANGED <<messages, path, pending, tool_results>>
    /\ UNCHANGED <<serviceVars, other_run, variant, query, max_iterations, api_key, iteration, oracle_calls,
                   tools_used, cur_args, browser_started, fetch_ops, tool_call>>

\* the arguments of a pending call, as its path parses them
ParsedArgs(call, how) ==
    IF how = "structured" THEN StructuredArgs(call.arguments)
    ELSE PseudoArgs(call.arguments)

\* the next call of the response: its arguments parsed, the tool_start event
ToolBegin ==
    /\ pc = "tools"
    /\ \E args \in {ParsedArgs(Head(pending), path)} :
          IF variant = "stream" /\ ~ToolStartOk(args)
          THEN /\ Abort("AttributeError")
               /\ UNCHANGED cur_args
          ELSE /\ Emit(<<Event("tool_start", "", Head(pending).name, "")>>)
               /\ cur_args' = args
               /\ pc' = "exec"
               /\ UNCHANGED result
    /\ UNCHANGED <<serviceVars, other_run, variant, query, max_iterations, api_key, iteration, oracle_calls,
                   llm_log, messages, tools_used, total_tokens_in, total_tokens_out,
                   path, pending, tool_results, browser_started, fetch_ops, tool_call>>

\* await execute_tool(name, args) completes under the outcome out: the record, the
\* tool_result event, the turn fed back
ToolEnd(out) ==
    /\ pc = "exec"
    /\ \E r \in {Dispatch(Head(pending).name, cur_args, out, browser_started)} :
          /\ browser_started' = r.started
          /\ fetch_ops' = fetch_ops \cup r.ops
          /\ IF r.raised
             THEN /\ Abort(r.exc)
                  /\ UNCHANGED <<iteration, messages, tools_used, pending, tool_results>>
             ELSE /\ Emit(<<Event("tool_result", "", Head(pending).name, r.result.status)>>)
                  /\ tools_used' = Append(tools_used,
                                          UsageRecord(Head(pending).name, cur_args, r.result))
                  /\ pending' = Tail(pending)
                  /\ tool_results' = IF path = "pseudo"
                                     THEN Append(tool_results, r.result) ELSE tool_results
                  /\ messages' =
                       IF path = "structured"
                       THEN Append(messages, ToolMessage(r.result))
                       ELSE IF Tail(pending) = <<>>
                       THEN Append(messages, Message("user", "tool_output", tool_results'))
                       ELSE messages
                  /\ iteration' = IF Tail(pending) = <<>> THEN iteration + 1 ELSE iteration
                  /\ pc' = IF Tail(pending) = <<>> THEN "loop" ELSE "tools"
                  /\ UNCHANGED result
    /\ UNCHANGED <<serviceVars, other_run, variant, query, max_iterations, api_key, oracle_calls, llm_log,
                   total_tokens_in, total_tokens_out, path, cur_args, tool_call>>

Next ==
    \/ ConfigError
    \/ Start
    \/ BeginIteration
    \/ BudgetExhausted
    \/ \E exc \in LlmErrors : LlmRaise(exc)
    \/ \E resp \in Responses : LlmReturn(resp)
    \/ ToolBegin
    \/ \E out \in Outcomes : ToolEnd(out)

Spec == Init /\ [][Next]_vars

(***************************************************************************)
(* Runs over every query, with an oracle that asks for one retrieval or    *)
(* answers                                                                 *)
(***************************************************************************)
InitPolicy ==
    /\ query \in Queries
    /\ InitRest

NextPolicy ==
    \/ ConfigError
    \/ Start
    \/ BeginIteration
    \/ BudgetExhausted
    \/ \E exc \in LlmErrors : LlmRaise(exc)
    \/ \E resp \in PlainResponses : LlmReturn(resp)
    \/ ToolBegin
    \/ \E out \in PlainOutcomes : ToolEnd(out)

SpecPolicy == InitPolicy /\ [][NextPolicy]_vars

(***************************************************************************)
(* The tool dispatcher called on its own                                   *)
(***************************************************************************)
U_www_gov == <<"H","T","T","P",":","/","/","W","W","W",".","E","x","a","m","p","l","e",".","G","O","V",".","I","N","/","a">>
U_noscheme == <<"i","n","d","i","a","n","k","a","n","o","o","n",".","o","r","g","/","d","o","c","/","1">>
U_lookalike == <<"h","t","t","p",":","/","/","g","o","v",".","i","n",".","e","x","a","m","p","l","e","/">>
U_fake == <<"h","t","t","p","s",":","/","/","x","i","n","d","i","a","n","k","a","n","o","o","n",".","o","r","g","/">>

ToolNames == {"rag_search", "web_search", "read_url", "lookup"}

\* argument values: mappings, and one value that is no mapping
ToolArgs ==
    { JsonLoads(a).val :
        a \in { A_query, A_url_kanoon, A_url_untrusted, JObject(K_url, U_www_gov),
                JObject(K_url, U_noscheme), JObject(K_url, U_lookalike),
                <<"{", "}">>, A_list } }

ToolOutcomes ==
    Outcomes \cup
    { Outcome(FALSE, <<Doc(<<"1">>, 10), Doc(<<"2">>, 800), Doc(<<"3">>, 801), Doc(<<"4">>, 5)>>,
              FALSE, FALSE, <<U_kanoon, U_fake, U_www_gov>>, 100),
      Outcome(FALSE, <<>>, TRUE, FALSE, <<>>, 0),
      Outcome(TRUE, <<>>, FALSE, FALSE, <<>>, 0) }

InitTool ==
    /\ query = <<>>
    /\ variant = "batch"
    /\ max_iterations = 1
    /\ api_key = TRUE
    /\ pc = "tool"
    /\ iteration = 0
    /\ oracle_calls = <<>>
    /\ llm_log = <<>>
    /\ messages = <<>>
    /\ tools_used = <<>>
    /\ total_tokens_in = 0
    /\ total_tokens_out = 0
    /\ path = "structured"
    /\ pending = <<>>
    /\ cur_args = JDict(<<>>)
    /\ tool_results = <<>>
    /\ events = <<>>
    /\ result = NoResult
    /\ browser_started = FALSE
    /\ fetch_ops = {}
    /\ tool_call = IdleTool
    /\ other_run = NoOtherRun
    /\ ServicesIdle

\* one call of execute_tool(name, args), and the same call as the loop makes it
DirectCall(name, args, out) ==
    /\ pc = "tool"
    /\ \E raw \in {execute_tool(name, args, out, browser_started)} :
          /\ tool_call' = [name |-> name, args |-> args, out |-> out,
                           started_before |-> browser_started, raw |-> raw,
                           dispatched |-> Dispatch(name, args, out, browser_started)]
          /\ browser_started' = raw.started
          /\ fetch_ops' = fetch_ops \cup raw.ops
    /\ UNCHANGED <<runVars, other_run, serviceVars>>

\* BrowserSearch.stop
BrowserStop ==
    /\ pc = "tool"
    /\ browser_started
    /\ browser_started' = FALSE
    /\ UNCHANGED <<runVars, fetch_ops, tool_call, other_run, serviceVars>>

NextTool ==
    \/ \E name \in ToolNames, args \in ToolArgs, out \in ToolOutcomes :
          DirectCall(name, args, out)
    \/ BrowserStop

SpecTool == InitTool /\ [][NextTool]_vars

(***************************************************************************)
(* Two runs served by one event loop: the variables hold the run that is   *)
(* executing, other_run holds the frame of the run that is suspended       *)
(***************************************************************************)
\* the parameters and locals of the executing run: query, max_iterations, client,
\* messages, tools_used, total_tokens_in, total_tokens_out, iteration, ...
Frame ==
    [variant |-> variant, query |-> query, max_iterations |-> max_iterations, pc |-> pc,
     iteration |-> iteration, oracle_calls |-> oracle_calls, llm_log |-> llm_log,
     messages |-> messages, tools_used |-> tools_used,
     total_tokens_in |-> total_tokens_in, total_tokens_out |-> total_tokens_out,
     path |-> path, pending |-> pending, cur_args |-> cur_args,
     tool_results |-> tool_results, events |-> events, result |-> result]

\* the frame of a run that has not taken its first step
NewFrame(v, q, n) ==
    [variant |-> v, query |-> q, max_iterations |-> n, pc |-> "start",
     iteration |-> 0, oracle_calls |-> <<>>, llm_log |-> <<>>,
     messages |-> <<>>, tools_used |-> <<>>,
     total_tokens_in |-> 0, total_tokens_out |-> 0,
     path |-> "structured", pending |-> <<>>, cur_args |-> JDict(<<>>),
     tool_results |-> <<>>, events |-> <<>>, result |-> NoResult]

PairResponses ==
    { Response(<<Call("rag_search", A_query)>>, <<>>,
               [present |-> TRUE, prompt_tokens |-> 2, completion_tokens |-> 1]),
      Response(<<Call("rag_search", A_list)>>, <<>>, NoUsage),
      Response(<<Call("rag_search", A_query)>>,
               <<OpenTag("web_search"), Text(A_query), CloseTag("web_search")>>, NoUsage),
      Response(<<>>, <<Text(S_theft)>>, NoUsage) }

PairOutcomes == PlainOutcomes \cup { Outcome(FALSE, <<>>, FALSE, FALSE, <<>>, 0) }

\* a run gives up the event loop where it awaits or yields: run_agent at
\* await execute_tool(...), run_agent_streaming there and at every yield; a run
\* that has not begun or has ended is not executing
CanSuspend ==
    \/ variant = "stream"
    \/ pc \in {"start", "exec", "done"}

\* the module globals stay as they are and the loop takes the log of the run it
\* leaves into the run it resumes
Switch_SharedLog ==
    /\ other_run.id # "none"
    /\ CanSuspend
    /\ other_run' = [id |-> IF other_run.id = "a" THEN "b" ELSE "a", frame |-> Frame]
    /\ variant' = other_run.frame.variant
    /\ query' = other_run.frame.query
    /\ max_iterations' = other_run.frame.max_iterations
    /\ pc' = other_run.frame.pc
    /\ iteration' = other_run.frame.iteration
    /\ oracle_calls' = other_run.frame.oracle_calls
    /\ llm_log' = other_run.frame.llm_log
    /\ messages' = other_run.frame.messages
    /\ total_tokens_in' = other_run.frame.total_tokens_in
    /\ total_tokens_out' = other_run.frame.total_tokens_out
    /\ path' = other_run.frame.path
    /\ pending' = other_run.frame.pending
    /\ cur_args' = other_run.frame.cur_args
    /\ tool_results' = other_run.frame.tool_results
    /\ events' = other_run.frame.events
    /\ result' = other_run.frame.result
    /\ UNCHANGED <<tools_used, api_key, browser_started, fetch_ops, tool_call, serviceVars>>

\* the event loop suspends the executing run and resumes the other: each run
\* keeps its own frame; GROQ_API_KEY, _rag_engine and _browser are module globals
Switch ==
    /\ other_run.id # "none"
    /\ CanSuspend
    /\ other_run' = [id |-> IF other_run.id = "a" THEN "b" ELSE "a", frame |-> Frame]
    /\ variant' = other_run.frame.variant
    /\ query' = other_run.frame.query
    /\ max_iterations' = other_run.frame.max_iterations
    /\ pc' = other_run.frame.pc
    /\ iteration' = other_run.frame.iteration
    /\ oracle_calls' = other_run.frame.oracle_calls
    /\ llm_log' = other_run.frame.llm_log
    /\ messages' = other_run.frame.messages
    /\ tools_used' = other_run.frame.tools_used
    /\ total_tokens_in' = other_run.frame.total_tokens_in
    /\ total_tokens_out' = other_run.frame.total_tokens_out
    /\ path' = other_run.frame.path
    /\ pending' = other_run.frame.pending
    /\ cur_args' = other_run.frame.cur_args
    /\ tool_results' = other_run.frame.tool_results
    /\ events' = other_run.frame.events
    /\ result' = other_run.frame.result
    /\ UNCHANGED <<api_key, browser_started, fetch_ops, tool_call, serviceVars>>

\* run "a" streams; run "b" is given the query "theft" in either variant
InitPair ==
    /\ variant = "stream"
    /\ query \in RunQueries
    /\ max_iterations \in 1..MaxIter
    /\ api_key \in BOOLEAN
    /\ pc = "start"
    /\ iteration = 0
    /\ oracle_calls = <<>>
    /\ llm_log = <<>>
    /\ messages = <<>>
    /\ tools_used = <<>>
    /\ total_tokens_in = 0
    /\ total_tokens_out = 0
    /\ path = "structured"
    /\ pending = <<>>
    /\ cur_args = JDict(<<>>)
    /\ tool_results = <<>>
    /\ events = <<>>
    /\ result = NoResult
    /\ browser_started = FALSE
    /\ fetch_ops = {}
    /\ tool_call = IdleTool
    /\ \E v \in Variants, n \in 1..MaxIter :
          other_run = [id |-> "b", frame |-> NewFrame(v, S_theft, n)]
    /\ ServicesIdle

NextPair ==
    \/ ConfigError
    \/ Start
    \/ BeginIteration
    \/ BudgetExhausted
    \/ \E exc \in LlmErrors : LlmRaise(exc)
    \/ \E resp \in PairResponses : LlmReturn(resp)
    \/ ToolBegin
    \/ \E out \in PairOutcomes : ToolEnd(out)
    \/ Switch

SpecPair == InitPair /\ [][NextPair]_vars

(***************************************************************************)
(* Runs whose oracle writes its tool calls as pseudo-tags in the text      *)
(***************************************************************************)
\* <read_url>"theft"</read_url><rag_search>{"query": "theft"}</rag_search>
PseudoMixed ==
    <<OpenTag("read_url"), Text(A_quoted), CloseTag("read_url"),
      OpenTag("rag_search"), Text(A_query), CloseTag("rag_search")>>

PseudoResponses ==
    { Response(<<>>, t, NoUsage) : t \in PseudoContents \cup PlainContents \cup {PseudoMixed} }
    \cup { Response(<<Call("rag_search", A_query)>>, <<>>, NoUsage) }

NextPseudo ==
    \/ ConfigError
    \/ Start
    \/ BeginIteration
    \/ BudgetExhausted
    \/ \E exc \in LlmErrors : LlmRaise(exc)
    \/ \E resp \in PseudoResponses : LlmReturn(resp)
    \/ ToolBegin
    \/ \E out \in Outcomes : ToolEnd(out)

SpecPseudo == Init /\ [][NextPseudo]_vars

(***************************************************************************)
(* No agent run: the state of the specifications of the other services     *)
(***************************************************************************)
RunIdle ==
    /\ query = <<>>
    /\ variant = "batch"
    /\ max_iterations = 1
    /\ api_key = TRUE
    /\ pc = "none"
    /\ iteration = 0
    /\ oracle_calls = <<>>
    /\ llm_log = <<>>
    /\ messages = <<>>
    /\ tools_used = <<>>
    /\ total_tokens_in = 0
    /\ total_tokens_out = 0
    /\ path = "structured"
    /\ pending = <<>>
    /\ cur_args = JDict(<<>>)
    /\ tool_results = <<>>
    /\ events = <<>>
    /\ result = NoResult
    /\ browser_started = FALSE
    /\ fetch_ops = {}
    /\ tool_call = IdleTool
    /\ other_run = NoOtherRun

(***************************************************************************)
(* explain_with_llm: the threshold routing of the non-agentic path         *)
(* Scores are counted in hundredths.                                       *)
(***************************************************************************)
CONFIDENCE_THRESHOLD == 60    \* 0.60
MaxLocal == 2                 \* most local results given to explain_with_llm

Scores == {0, 59, 60, 90}

\* the lists retrieve() gives: best score first
LocalResults ==
    { l \in UNION {[1..k -> [score : Scores]] : k \in 0..MaxLocal} :
         \A i \in 1..(Len(l) - 1) : l[i].score >= l[i + 1].score }

\* web_results: None, an empty list, a list of n results
WebResults == { [none |-> TRUE, n |-> 0], [none |-> FALSE, n |-> 0], [none |-> FALSE, n |-> 1] }
SourceModes == {"local", "hybrid", "fallback"}
\* _client is None, or its call returns, or its call raises
Clients == {"none", "ok", "raises"}

\* not web_results
NoWeb(web) == web.none \/ web.n = 0

\* Determine confidence and mode
ExplainMode(local, web, source_mode) ==
    IF local = <<>> /\ NoWeb(web) THEN "fallback"
    ELSE IF source_mode = "hybrid" THEN "hybrid"
    ELSE IF (IF local # <<>> THEN local[1].score ELSE 0) >= CONFIDENCE_THRESHOLD
    THEN "grounded"
    ELSE "fallback"

\* Select prompt
SelectPrompt(mode) ==
    IF mode = "grounded" THEN "SYSTEM_PROMPT_GROUNDED"
    ELSE IF mode = "hybrid" THEN "SYSTEM_PROMPT_HYBRID"
    ELSE "SYSTEM_PROMPT_FALLBACK"

\* explain_with_llm: the prompt selected, whether it was sent, the mode returned
explain_with_llm(local, web, source_mode, client) ==
    [prompt |-> SelectPrompt(ExplainMode(local, web, source_mode)),
     sent |-> client # "none",
     answered |-> client = "ok",
     mode |-> IF client = "ok" THEN ExplainMode(local, web, source_mode) ELSE "fallback"]

Explain(local, web, source_mode, client) ==
    /\ explain_call' = [called |-> TRUE, local |-> local, web |-> web,
                        source_mode |-> source_mode, client |-> client,
                        out |-> explain_with_llm(local, web, source_mode, client)]
    /\ UNCHANGED <<runVars, browser_started, fetch_ops, tool_call, other_run,
                   start_tasks, rate_limit>>

InitExplain == RunIdle /\ ServicesIdle

NextExplain ==
    \E local \in LocalResults, web \in WebResults, source_mode \in SourceModes,
       client \in Clients : Explain(local, web, source_mode, client)

SpecExplain == InitExplain /\ [][NextExplain]_vars

(***************************************************************************)
(* BrowserSearch.start called by concurrent search / read_page calls on    *)
(* the process-wide instance. Browsers are numbered as they are launched;  *)
(* 0 is None.                                                              *)
(***************************************************************************)
MaxLaunches == 3     \* most browsers launched in one behaviour
Callers == {"run1", "run2"}

InitBrowser ==
    /\ RunIdle
    /\ explain_call = NoExplain
    /\ rate_limit = NoRequests
    /\ start_tasks = [called |-> TRUE, browser |-> 0, playwright |-> 0, launches |-> 0,
                      open |-> {}, at |-> [t \in Callers |-> "idle"]]

BrowserFrame ==
    UNCHANGED <<variant, query, max_iterations, api_key, pc, iteration, oracle_calls,
                llm_log, messages, tools_used, total_tokens_in, total_tokens_out, path,
                pending, cur_args, tool_results, events, result, fetch_ops, tool_call,
                other_run, explain_call, rate_limit>>

\* search / read_page: await self.start(); start tests `if self.browser is None`
EnterStart(t) ==
    /\ start_tasks.at[t] = "idle"
    /\ start_tasks' = [start_tasks EXCEPT
          !.at[t] = IF start_tasks.browser = 0 THEN "playwright" ELSE "started"]
    /\ UNCHANGED browser_started
    /\ BrowserFrame

\* self.playwright = await async_playwright().start()
PlaywrightStarted(t) ==
    /\ start_tasks.at[t] = "playwright"
    /\ start_tasks.launches < MaxLaunches
    /\ start_tasks' = [start_tasks EXCEPT !.at[t] = "launch",
                                          !.playwright = start_tasks.launches + 1]
    /\ UNCHANGED browser_started
    /\ BrowserFrame

\* self.browser = await self.playwright.chromium.launch(...)
BrowserLaunched(t) ==
    /\ start_tasks.at[t] = "launch"
    /\ start_tasks.launches < MaxLaunches
    /\ start_tasks' = [start_tasks EXCEPT !.at[t] = "started",
                                          !.launches = start_tasks.launches + 1,
                                          !.browser = start_tasks.launches + 1,
                                          !.open = start_tasks.open \cup {start_tasks.launches + 1}]
    /\ browser_started' = TRUE
    /\ BrowserFrame

\* the call that awaited start() goes on and returns
CallReturns(t) ==
    /\ start_tasks.at[t] = "started"
    /\ start_tasks' = [start_tasks EXCEPT !.at[t] = "idle"]
    /\ UNCHANGED browser_started
    /\ BrowserFrame

\* BrowserSearch.stop: if self.browser: close it, self.browser = None
StopBrowser ==
    /\ start_tasks.browser # 0
    /\ start_tasks' = [start_tasks EXCEPT !.browser = 0,
                                          !.open = start_tasks.open \ {start_tasks.browser}]
    /\ browser_started' = FALSE
    /\ BrowserFrame

NextBrowser ==
    \/ \E t \in Callers : EnterStart(t)
    \/ \E t \in Callers : PlaywrightStarted(t)
    \/ \E t \in Callers : BrowserLaunched(t)
    \/ \E t \in Callers : CallReturns(t)
    \/ StopBrowser

SpecBrowser == InitBrowser /\ [][NextBrowser]_vars

(***************************************************************************)
(* RateLimitMiddleware.dispatch. Time is counted in seconds.               *)
(***************************************************************************)
WINDOW == 60          \* now - t < 60
Limit == 2            \* self.limit
MaxRequests == 5      \* most requests arriving in one behaviour

\* request.client.host
Hosts == {"", "10.0.0.1"}
\* the seconds between one arrival and the next
Gaps == {0, 1, 59}

\* client_ip = request.client.host or "unknown"
ClientIp(host) == IF host = "" THEN "unknown" ELSE host
ClientIps == {ClientIp(h) : h \in Hosts}

RECURSIVE Kept(_, _)
\* [t for t in self.requests[client_ip] if now - t < 60]
Kept(times, now) ==
    IF times = <<>> THEN <<>>
    ELSE (IF now - Head(times) < WINDOW THEN <<Head(times)>> ELSE <<>>)
         \o Kept(Tail(times), now)

\* the check that lets one request more through
OverLimit_Exclusive(times) == Len(times) > Limit

\* if len(self.requests[client_ip]) >= self.limit
OverLimit(times) == Len(times) >= Limit

InitLimiter ==
    /\ RunIdle
    /\ explain_call = NoExplain
    /\ start_tasks = NoTasks
    /\ rate_limit = [called |-> TRUE, now |-> 0, arrived |-> 0, rejected |-> 0,
                     requests |-> [ip \in ClientIps |-> <<>>],
                     forwarded |-> [ip \in ClientIps |-> <<>>],
                     last |-> [ip |-> "", status |-> 0]]

\* dispatch(request, call_next) of a request from host, gap seconds after the last
RateLimitDispatch(host, gap) ==
    /\ rate_limit.arrived < MaxRequests
    /\ rate_limit' =
          IF OverLimit(Kept(rate_limit.requests[ClientIp(host)], rate_limit.now + gap))
          THEN [rate_limit EXCEPT
                  !.now = @ + gap, !.arrived = @ + 1, !.rejected = @ + 1,
                  !.requests[ClientIp(host)] = Kept(@, rate_limit.now + gap),
                  !.last = [ip |-> ClientIp(host), status |-> 429]]
          ELSE [rate_limit EXCEPT
                  !.now = @ + gap, !.arrived = @ + 1,
                  !.requests[ClientIp(host)] =
                      Append(Kept(@, rate_limit.now + gap), rate_limit.now + gap),
                  !.forwarded[ClientIp(host)] = Append(@, rate_limit.now + gap),
                  !.last = [ip |-> ClientIp(host), status |-> 200]]
    /\ UNCHANGED <<runVars, browser_started, fetch_ops, tool_call, other_run,
                   explain_call, start_tasks>>

NextLimiter == \E host \in Hosts, gap \in Gaps : RateLimitDispatch(host, gap)

SpecLimiter == InitLimiter /\ [][NextLimiter]_vars

(***************************************************************************)
(* Properties                                                              *)
(***************************************************************************)
Last(s) == s[Len(s)]

\* the run has ended reporting an error
EndedInError ==
    /\ pc = "done"
    /\ IF variant = "batch" THEN result.mode = "error"
       ELSE events # <<>> /\ Last(events).type = "error"

\* the run has ended with the budget-exhaustion answer
EndedExhausted ==
    /\ pc = "done"
    /\ IF variant = "batch"
       THEN result.mode = "fallback" /\ result.answer = StepsExceeded
       ELSE /\ events # <<>>
            /\ Last(events).type = "answer"
            /\ Last(events).mode = "fallback"
            /\ Last(events).answer = StepsExceeded

\* the run has ended in the branch taken when the oracle asks for no tool
EndedWithAnswer ==
    /\ pc = "done"
    /\ llm_log # <<>>
    /\ ~Last(llm_log).raised
    /\ Last(llm_log).asked = 0
    /\ ~EndedInError

\* the mode the run reported at its end
ReportedMode == IF variant = "batch" THEN result.mode ELSE Last(events).mode

\* every oracle call so far returned, and every response asked for a tool
OracleAlwaysAsked ==
    \A i \in 1..Len(llm_log) : ~llm_log[i].raised /\ llm_log[i].asked >= 1

\* ---- C1 ------------------------------------------------------------------------
\* a run that has not ended has a step to take: the guards of the steps, by position
CanGoOn ==
    \/ pc = "done"
    \/ pc = "start"                                  \* ConfigError or Start
    \/ pc = "loop"                                   \* BeginIteration or BudgetExhausted
    \/ pc = "llm" /\ LlmErrors # {}                  \* LlmRaise
    \/ pc \in {"tools", "exec"} /\ pending # <<>>    \* ToolBegin, ToolEnd

\* C1: a run of either variant with max_iterations = N makes at most N oracle
\* calls and can always go on until it has ended; when every response asks for at
\* least one tool, the run ends after exactly N oracle calls with the fallback
\* result carrying the budget-exhaustion text.
C1_BoundedTermination ==
    /\ Len(oracle_calls) <= max_iterations
    /\ CanGoOn
    /\ (pc = "done" /\ api_key /\ OracleAlwaysAsked)
          => (Len(oracle_calls) = max_iterations /\ EndedExhausted)

\* ---- C2 ------------------------------------------------------------------------
\* the greeting test as the words state it: the lower-cased query is blanks, a
\* core, trailing marks, blanks; the core is a listed greeting or under 4 long
GreetingByWords(q) ==
    \E a \in 0..Len(q), b \in 0..Len(q), c \in 0..Len(q) :
        /\ a <= b /\ b <= c
        /\ \A i \in 1..a : Lower(q)[i] \in Whitespace
        /\ \A i \in (c + 1)..Len(q) : Lower(q)[i] \in Whitespace
        /\ (a < c) => (Lower(q)[a + 1] \notin Whitespace /\ Lower(q)[c] \notin Whitespace)
        /\ \A i \in (b + 1)..c : Lower(q)[i] \in TrailingPunct
        /\ (a < b) => Lower(q)[b] \notin TrailingPunct
        /\ (SubSeq(Lower(q), a + 1, b) \in greetings \/ b - a < 4)

\* C2: in both variants the oracle call of iteration 0 carries the directive
\* forcing rag_search exactly when the query is not a greeting, and every other
\* oracle call carries 'auto'; a query is a greeting exactly when its lower-cased,
\* trimmed form without trailing '!', '.', ',', '?' is a listed greeting or is
\* shorter than 4 characters.
C2_ToolChoiceDirective ==
    \A i \in 1..Len(oracle_calls) :
        oracle_calls[i] = IF i = 1 /\ ~GreetingByWords(query) THEN "rag_search" ELSE "auto"

\* a greeting by its listed core, found under blanks and marks, on its second call
C2_Witness ==
    /\ Len(oracle_calls) = 2
    /\ oracle_calls[1] = "auto"
    /\ Normalize(query) # query
    /\ Len(Normalize(query)) >= 4

ModeBySuccess(used) ==
    IF \E i \in 1..Len(used) : used[i].name = "web_search" /\ used[i].result = "success"
    THEN "hybrid"
    ELSE IF \E i \in 1..Len(used) : used[i].name = "rag_search" /\ used[i].result = "success"
    THEN "grounded"
    ELSE "fallback"

\* C4: at the terminal branch the mode is hybrid iff a web_search record has
\* status success, else grounded iff a rag_search record has status success, else
\* fallback.
C4_ModeFromSuccessfulCalls ==
    EndedWithAnswer => ReportedMode = ModeBySuccess(tools_used)

\* ---- C5 ------------------------------------------------------------------------
RECURSIVE PromptTokens(_)
PromptTokens(log) ==
    IF log = <<>> THEN 0
    ELSE (IF Head(log).usage.present THEN Head(log).usage.prompt_tokens ELSE 0)
         + PromptTokens(Tail(log))

RECURSIVE CompletionTokens(_)
CompletionTokens(log) ==
    IF log = <<>> THEN 0
    ELSE (IF Head(log).usage.present THEN Head(log).usage.completion_tokens ELSE 0)
         + CompletionTokens(Tail(log))

\* C5: in run_agent, when the oracle call of iteration i raises, the run has
\* ended at once: mode error, the answer holding the exception's message, the
\* token totals of iterations 0..i-1, the tool-usage records appended so far, and
\* no oracle call or tool dispatch after it.
C5_OracleFailureEndsRun ==
    (variant = "batch" /\ llm_log # <<>> /\ Last(llm_log).raised) =>
        /\ pc = "done"
        /\ Len(oracle_calls) = Len(llm_log)
        /\ iteration = Len(llm_log) - 1
        /\ result.mode = "error"
        /\ result.answer = ErrorOccurred(Last(llm_log).exc)
        /\ Last(llm_log).exc \in LlmErrors
        /\ result.tokens_in = PromptTokens(SubSeq(llm_log, 1, Len(llm_log) - 1))
        /\ result.tokens_out = CompletionTokens(SubSeq(llm_log, 1, Len(llm_log) - 1))
        /\ result.tools_used = tools_used
        /\ pending = <<>>
        /\ ~ENABLED Next

C5_Witness ==
    /\ variant = "batch"
    /\ Len(llm_log) = 2
    /\ Last(llm_log).raised
    /\ result.tools_used # <<>>
    /\ result.tokens_in > 0

\* ---- C6 ------------------------------------------------------------------------
\* C6: with no oracle credential the run makes no oracle call and dispatches no
\* tool; run_agent returns mode error with an empty tools_used and zero token
\* totals, run_agent_streaming yields exactly one error event.
C6_NoCredentialShortCircuit ==
    ~api_key =>
        /\ oracle_calls = <<>>
        /\ llm_log = <<>>
        /\ tools_used = <<>>
        /\ fetch_ops = {}
        /\ pc \in {"start", "done"}
        /\ (pc = "start" => events = <<>> /\ result = NoResult)
        /\ (pc = "done" /\ variant = "batch") =>
              /\ result.mode = "error"
              /\ result.tools_used = <<>>
              /\ result.tokens_in = 0
              /\ result.tokens_out = 0
        /\ (pc = "done" /\ variant = "stream") =>
              /\ Len(events) = 1
              /\ events[1].type = "error"

C6_Witness ==
    /\ ~api_key
    /\ pc = "done"
    /\ variant = "stream"
    /\ events = <<ErrorEvent(NotConfiguredEvent)>>

\* ---- C7 ------------------------------------------------------------------------
\* C7: no failure of argument parsing or of tool dispatch ends a run in an
\* error result or an error event: only a missing credential or a failure of the
\* oracle call does.
C7_OnlyOracleFailureEndsInError ==
    (EndedInError /\ api_key) => (llm_log # <<>> /\ Last(llm_log).raised)

\* ---- C8 ------------------------------------------------------------------------
\* the retrieval oracle, or the web oracle, raises under the outcome out
OracleRaises(name, args, out, started) ==
    \/ name = "rag_search" /\ out.rag_raises
    \/ name = "web_search" /\ ~started /\ out.start_fails
    \/ name = "read_url" /\ is_trusted_domain(DictGet(args, K_url))
          /\ ~started /\ out.start_fails

\* the call being dispatched fails: no such tool, or its oracle raises
DispatchFails(out) ==
    \/ Head(pending).name \notin {"rag_search", "web_search", "read_url"}
    \/ ~IsDict(cur_args) /\ Head(pending).name \in {"rag_search", "web_search", "read_url"}
    \/ IsDict(cur_args) /\ OracleRaises(Head(pending).name, cur_args, out, browser_started)

\* C8: when a dispatched tool call fails (unknown name, or its oracle raising),
\* that step appends exactly one record with status error, feeds an error result
\* back on the transcript, goes on with the rest of the same response, and the
\* run goes on to its next iteration instead of ending.
C8_DispatchFailureAbsorbed ==
    [][ \A out \in Outcomes :
          (ToolEnd(out) /\ DispatchFails(out)) =>
             /\ Len(tools_used') = Len(tools_used) + 1
             /\ Last(tools_used').name = Head(pending).name
             /\ Last(tools_used').result = "error"
             /\ SubSeq(tools_used', 1, Len(tools_used)) = tools_used
             /\ pending' = Tail(pending)
             /\ pc' = (IF Tail(pending) = <<>> THEN "loop" ELSE "tools")
             /\ iteration' = (IF Tail(pending) = <<>> THEN iteration + 1 ELSE iteration)
             /\ result' = result
             /\ (variant = "stream" =>
                    /\ Last(events').type = "tool_result"
                    /\ Last(events').status = "error")
             /\ (path = "structured" =>
                    /\ Len(messages') = Len(messages) + 1
                    /\ Last(messages').role = "tool"
                    /\ Last(messages').results[1].status = "error"
                    /\ Last(messages').results[1].reason # "")
             /\ (path = "pseudo" =>
                    /\ Last(tool_results').status = "error"
                    /\ (Tail(pending) = <<>> =>
                           /\ Last(messages').role = "user"
                           /\ Last(messages').results = tool_results'))
      ]_vars

\* a retrieval that raised is on the log, the second call of its response was
\* dispatched, and the oracle is being called again
C8_Witness ==
    /\ Len(tools_used) = 2
    /\ tools_used[1].name = "rag_search"
    /\ IsDict(tools_used[1].args)
    /\ tools_used[1].result = "error"
    /\ Len(llm_log) = 1
    /\ Len(oracle_calls) = 2

\* ---- C9 ------------------------------------------------------------------------
\* the oracle of the last direct call raised
OracleRaised(tc) == OracleRaises(tc.name, tc.args, tc.out, tc.started_before)

\* C9, as stated: for every tool name and every argument mapping execute_tool
\* returns a ToolResult and never raises; when the oracle failed the ToolResult
\* has status error and a reason.
C9_ExecuteToolNeverRaises ==
    (tool_call.name # "" /\ IsDict(tool_call.args)) =>
        /\ ~tool_call.raw.raised
        /\ OracleRaised(tool_call) =>
              /\ tool_call.raw.result.status = "error"
              /\ tool_call.raw.result.reason # ""

\* C9, amended: for every tool name and every argument mapping, execute_tool
\* called inside the agent loop's per-call handler yields a ToolResult and no
\* exception; execute_tool itself returns status error only for an unknown name
\* and lets a failure of its oracle leave it as an exception, which the handler
\* turns into a ToolResult with status error and the exception's message as reason.
C9_DispatchNeverRaises ==
    (tool_call.name # "" /\ IsDict(tool_call.args)) =>
        /\ ~tool_call.dispatched.raised
        /\ OracleRaised(tool_call) =>
              /\ tool_call.raw.raised
              /\ tool_call.dispatched.result.status = "error"
              /\ tool_call.dispatched.result.reason = tool_call.raw.exc
              /\ tool_call.dispatched.result.reason # ""
        /\ ~OracleRaised(tool_call) =>
              /\ ~tool_call.raw.raised
              /\ tool_call.dispatched = tool_call.raw
        /\ tool_call.name \notin {"rag_search", "web_search", "read_url"} =>
              /\ ~tool_call.raw.raised
              /\ tool_call.raw.result.status = "error"
              /\ tool_call.raw.result.reason # ""

C9_Witness ==
    /\ tool_call.name = "web_search"
    /\ IsDict(tool_call.args)
    /\ tool_call.raw.raised
    /\ tool_call.dispatched.result.status = "error"
    /\ tool_call.dispatched.result.reason = "browser launch failed"

\* ---- C10 -----------------------------------------------------------------------
\* C10: read_url dispatched with a URL outside the trusted domains returns
\* status blocked and does nothing with the network for that URL: the browser is
\* neither started nor sent to it.
C10_UntrustedUrlBlocked ==
    /\ (tool_call.name = "read_url" /\ IsDict(tool_call.args)
          /\ ~is_trusted_domain(DictGet(tool_call.args, K_url))) =>
             /\ ~tool_call.raw.raised
             /\ tool_call.raw.result.status = "blocked"
             /\ tool_call.raw.ops = {}
             /\ tool_call.raw.started = tool_call.started_before
    /\ \A op \in fetch_ops :
          op[1] \in {"start", "goto"} => is_trusted_domain(JStr(op[2]))

C10_Witness ==
    /\ tool_call.name = "read_url"
    /\ DictGet(tool_call.args, K_url) = JStr(U_lookalike)
    /\ tool_call.raw.result.status = "blocked"
    /\ ~tool_call.started_before
    /\ ~browser_started
    /\ \E op \in fetch_ops : op[1] = "goto"

\* ---- C11 -----------------------------------------------------------------------
\* the host of a url, lower-cased, without a leading 'www.'
HostOf(url) ==
    IF StartsWith(Lower(Netloc(url)), <<"w","w","w",".">>)
    THEN SubSeq(Lower(Netloc(url)), 5, Len(Netloc(url)))
    ELSE Lower(Netloc(url))

\* the whitelist as the words state it: a government suffix, or an allow-listed
\* domain or a subdomain of one
HostAllowed(url) ==
    \/ EndsWith(HostOf(url), <<".","g","o","v",".","i","n">>)
    \/ EndsWith(HostOf(url), <<".","n","i","c",".","i","n">>)
    \/ \E d \in TRUSTED_DOMAINS : HostOf(url) = d \/ EndsWith(HostOf(url), <<".">> \o d)

\* C11: every url surfaced by web_search and every url fetched by read_url has a
\* host that, without a leading 'www.', ends with '.gov.in' or '.nic.in' or is an
\* allow-listed domain or a subdomain of one; no other url is returned or fetched.
C11_WhitelistEnforced ==
    /\ (tool_call.name = "web_search" /\ ~tool_call.raw.raised
          /\ tool_call.raw.result.status = "success") =>
             \A i \in 1..Len(tool_call.raw.result.data.items) :
                 HostAllowed(tool_call.raw.result.data.items[i].ref)
    /\ \A op \in fetch_ops : op[1] = "goto" => HostAllowed(op[2])

\* ---- C12 -----------------------------------------------------------------------
\* C12: on the structured path a tool result whose serialized form is longer than
\* 3000 characters enters the transcript as its first 3000 characters followed by
\* the fixed suffix, a shorter one unchanged; no tool turn is longer than 3000
\* characters plus the suffix.
C12_TranscriptTruncation ==
    \A i \in 1..Len(messages) :
        messages[i].role = "tool" =>
            /\ SerializedLen(messages[i].results[1]) > 3000 =>
                  /\ messages[i].content.taken = 3000
                  /\ messages[i].content.suffix = <<".", ".", ".", "\"", "}">>
            /\ SerializedLen(messages[i].results[1]) <= 3000 =>
                  /\ messages[i].content.taken = SerializedLen(messages[i].results[1])
                  /\ messages[i].content.suffix = <<>>
            /\ messages[i].content.taken + Len(messages[i].content.suffix) <= 3000 + 5

\* a long retrieval result and a short result, both on the transcript
C12_Witness ==
    /\ \E i \in 1..Len(messages) :
          /\ messages[i].role = "tool"
          /\ SerializedLen(messages[i].results[1]) > 3000
          /\ messages[i].content.taken = 3000
    /\ \E i \in 1..Len(messages) :
          /\ messages[i].role = "tool"
          /\ messages[i].results[1].status = "success"
          /\ SerializedLen(messages[i].results[1]) <= 3000

\* ---- C13 -----------------------------------------------------------------------
\* the web oracle of the last direct call returned an empty list
WebSearchEmpty(tc) ==
    /\ ~BrowserSearch_search(tc.started_before, tc.out).raised
    /\ BrowserSearch_search(tc.started_before, tc.out).results = <<>>

\* C13: rag_search dispatched while the retrieval oracle returns an empty list
\* gives status no_results with data the empty list, never error; so does
\* web_search while the web oracle returns no results.
C13_EmptyIsNoResults ==
    /\ (tool_call.name = "rag_search" /\ IsDict(tool_call.args)
          /\ ~tool_call.out.rag_raises /\ tool_call.out.docs = <<>>) =>
             /\ ~tool_call.raw.raised
             /\ tool_call.raw.result.status = "no_results"
             /\ tool_call.raw.result.data = [kind |-> "list", items |-> <<>>]
             /\ tool_call.dispatched = tool_call.raw
    /\ (tool_call.name = "web_search" /\ IsDict(tool_call.args)
          /\ WebSearchEmpty(tool_call)) =>
             /\ ~tool_call.raw.raised
             /\ tool_call.raw.result.status = "no_results"
             /\ tool_call.raw.result.data = [kind |-> "list", items |-> <<>>]
             /\ tool_call.dispatched = tool_call.raw

C13_Witness ==
    /\ tool_call.name = "rag_search"
    /\ IsDict(tool_call.args)
    /\ ~tool_call.out.rag_raises
    /\ tool_call.out.docs = <<>>
    /\ tool_call.raw.result.status = "no_results"

\* ---- C14 -----------------------------------------------------------------------
\* the positions of the answer and error events yielded so far
TerminalEvents == {i \in 1..Len(events) : events[i].type \in {"answer", "error"}}

\* C14: a streaming run emits at most one event of type answer or error, and that
\* event is the last of the run: nothing follows it; a batch run returns exactly
\* one result.
C14_SingleTerminalOutput ==
    /\ Cardinality(TerminalEvents) <= 1
    /\ TerminalEvents \subseteq {Len(events)}
    /\ (TerminalEvents # {}) => pc = "done"
    /\ (variant = "stream" /\ pc = "done") => TerminalEvents = {Len(events)}
    /\ (variant = "batch") => (result # NoResult <=> pc = "done")
    /\ (variant = "batch") => events = <<>>

\* a streaming run that dispatched a tool and ended with sources and an answer
C14_Witness ==
    /\ variant = "stream"
    /\ pc = "done"
    /\ Last(events).type = "answer"
    /\ Len(events) >= 2
    /\ events[Len(events) - 1].type = "sources"
    /\ \E i \in 1..Len(events) : events[i].type = "tool_result"

\* ---- C15 -----------------------------------------------------------------------
\* the positions of the events of one type yielded so far
EventsOfType(type) == {i \in 1..Len(events) : events[i].type = type}

\* C15: with credentials the first event of a streaming run is a status event; a
\* thinking event opens every iteration from 1 on and never iteration 0; every
\* tool_start is followed at once by the tool_result of the same tool, also when
\* the dispatch fails; no tool_result comes without its tool_start before it.
C15_StreamEventOrder ==
    variant = "stream" =>
        /\ (api_key /\ events # <<>>) => events[1].type = "status"
        /\ (api_key /\ pc # "start") => events # <<>>
        /\ Cardinality(EventsOfType("thinking"))
              = (IF oracle_calls = <<>> THEN 0 ELSE Len(oracle_calls) - 1)
        /\ \A i \in EventsOfType("thinking") :
              /\ i > 1
              /\ events[i - 1].type = "tool_result"
        /\ \A i \in EventsOfType("tool_start") :
              /\ i < Len(events) =>
                    /\ events[i + 1].type = "tool_result"
                    /\ events[i + 1].tool = events[i].tool
              /\ i = Len(events) => pc = "exec"
        /\ \A i \in EventsOfType("tool_result") :
              /\ i > 1
              /\ events[i - 1].type = "tool_start"
              /\ events[i - 1].tool = events[i].tool
        /\ Cardinality(EventsOfType("tool_result")) = Len(tools_used)

\* a failed dispatch between its two events, then the thinking event of iteration 1
C15_Witness ==
    /\ variant = "stream"
    /\ Cardinality(EventsOfType("thinking")) = 1
    /\ \E i \in EventsOfType("tool_result") :
          /\ events[i].status = "error"
          /\ events[i - 1].type = "tool_start"
          /\ i < Len(events)

\* ---- C16 -----------------------------------------------------------------------
\* C16: every streaming run that ends with an answer event ends with the status
\* event 'Generating response', a sources event and the answer, in that order,
\* all after the last tool_result of the run.
C16_TerminalSequence ==
    (variant = "stream" /\ pc = "done" /\ Last(events).type = "answer") =>
        /\ Len(events) >= 3
        /\ events[Len(events) - 2].type = "status"
        /\ events[Len(events) - 2].message = "Generating response"
        /\ events[Len(events) - 1].type = "sources"
        /\ \A i \in EventsOfType("tool_result") : i < Len(events) - 2

\* ---- C18 -----------------------------------------------------------------------
\* an oracle call has started and not yet returned or raised
OracleInProgress == Len(oracle_calls) = Len(llm_log) + 1

\* a tool call has been dispatched and has not yet completed
ToolInProgress == pc = "exec"

RECURSIVE AskedSoFar(_)
\* the tool calls the oracle's responses asked for
AskedSoFar(log) == IF log = <<>> THEN 0 ELSE Head(log).asked + AskedSoFar(Tail(log))

\* C18: within one run the oracle call of an iteration completes or fails before
\* any tool of that iteration is dispatched, the tool calls of a response run one
\* at a time, and all complete before the next oracle call starts; never are two
\* calls in progress together.
C18_StrictAlternation ==
    /\ [](/\ Len(oracle_calls) \in {Len(llm_log), Len(llm_log) + 1}
          /\ OracleInProgress <=> pc = "llm"
          /\ ~(OracleInProgress /\ ToolInProgress)
          /\ ToolInProgress =>
                /\ pending # <<>>
                /\ ~Last(llm_log).raised
                /\ Len(tools_used) < AskedSoFar(llm_log))
    /\ [][/\ Len(oracle_calls') > Len(oracle_calls) =>
                /\ ~OracleInProgress
                /\ ~ToolInProgress
                /\ pending = <<>>
                /\ Len(tools_used) = AskedSoFar(llm_log)
          /\ (ToolInProgress' /\ ~ToolInProgress) =>
                /\ ~OracleInProgress
                /\ pc = "tools"
                /\ UNCHANGED <<oracle_calls, llm_log, tools_used>>
          /\ ToolInProgress => ~ToolInProgress'
         ]_vars

\* the second oracle call in progress after two tool calls ran one after the other
C18_Witness ==
    /\ OracleInProgress
    /\ Len(oracle_calls) = 2
    /\ Len(tools_used) = 2
    /\ Last(llm_log).asked = 2

\* ---- C20 -----------------------------------------------------------------------
\* C20: within one run the log receives exactly one record per dispatched tool
\* call, in dispatch order, with the status of that call's ToolResult; the log
\* only grows, no record is changed, reordered or removed, so its length is the
\* number of tool calls dispatched so far.
C20_UsageLogDiscipline ==
    [][/\ tools_used' # tools_used =>
             /\ ToolInProgress
             /\ Len(tools_used') = Len(tools_used) + 1
             /\ SubSeq(tools_used', 1, Len(tools_used)) = tools_used
             /\ Last(tools_used').name = Head(pending).name
             /\ Last(tools_used').args = cur_args
       /\ (ToolInProgress /\ ~EndedInError') => Len(tools_used') = Len(tools_used) + 1
       /\ \A out \in Outcomes :
             ToolEnd(out) =>
                /\ Last(tools_used').result
                      = Dispatch(Head(pending).name, cur_args, out, browser_started).result.status
                /\ Last(tools_used').data
                      = Dispatch(Head(pending).name, cur_args, out, browser_started).result.data
       /\ (pc' = "done" /\ variant = "batch" /\ pc # "start") => result'.tools_used = tools_used
      ]_vars

\* two records of one run, with different statuses
C20_Witness ==
    /\ Len(tools_used) = 2
    /\ tools_used[1].result = "no_results"
    /\ tools_used[2].result = "success"


\* ---- C17 ----------------------------------------------------------------------
IsPrefix(s, t) == Len(s) <= Len(t) /\ SubSeq(t, 1, Len(s)) = s

\* two runs were given the same query, cap, oracle responses and tool outcomes
SameInputs(f, g) ==
    /\ f.query = g.query
    /\ f.max_iterations = g.max_iterations
    /\ f.llm_log = g.llm_log
    /\ IsPrefix(f.tools_used, g.tools_used) \/ IsPrefix(g.tools_used, f.tools_used)

\* an ended stream and an ended batch run made the same calls and ended alike
SameEnding(s, b) ==
    /\ s.oracle_calls = b.oracle_calls
    /\ s.tools_used = b.tools_used
    /\ s.events # <<>>
    /\ Last(s.events).type = "answer" <=> b.result.mode # "error"
    /\ Last(s.events).type = "error" <=> b.result.mode = "error"
    /\ Last(s.events).type = "answer" =>
          /\ Last(s.events).answer = b.result.answer
          /\ Last(s.events).mode = b.result.mode
          /\ Last(s.events).tokens_in = b.result.tokens_in
          /\ Last(s.events).tokens_out = b.result.tokens_out

\* the streaming run executes while the batch run given the same inputs is suspended
StreamBesideBatch ==
    /\ other_run.id # "none"
    /\ variant = "stream"
    /\ other_run.frame.variant = "batch"
    /\ pc = "done"
    /\ other_run.frame.pc = "done"
    /\ SameInputs(Frame, other_run.frame)

\* C17: a streaming run and a batch run given the same query, the same cap and the
\* same oracle responses and tool outcomes make the same oracle calls and the same
\* tool dispatches, and the stream ends with an answer event of equal text, mode and
\* token counts exactly when the batch result is not an error, and with an error
\* event exactly when it is
C17_BatchStreamEquivalence == StreamBesideBatch => SameEnding(Frame, other_run.frame)

\* the same, for the runs whose oracle never gives a call arguments that are not a
\* JSON object
BatchStreamEquivalentOnObjects ==
    (StreamBesideBatch
        /\ \A i \in 1..Len(llm_log) :
              \A k \in 1..Len(Requested(llm_log[i].resp)) :
                 Requested(llm_log[i].resp)[k].arguments # A_list)
    => SameEnding(Frame, other_run.frame)
BatchStreamBothAnswered ==
    /\ StreamBesideBatch
    /\ Len(tools_used) = 1
    /\ Len(llm_log) = 2
    /\ Last(events).type = "answer"

\* ---- C19 ----------------------------------------------------------------------
RECURSIVE CallNames(_)
CallNames(calls) ==
    IF calls = <<>> THEN <<>> ELSE <<Head(calls).name>> \o CallNames(Tail(calls))

RECURSIVE RequestedNames(_)
\* the names of the tools a run's oracle responses asked for, in order
RequestedNames(log) ==
    IF log = <<>> THEN <<>>
    ELSE CallNames(Requested(Head(log).resp)) \o RequestedNames(Tail(log))

\* what a batch run returns, from its own oracle responses and its own log
AloneResult(f) ==
    IF f.llm_log = <<>> THEN ConfigErrorResult
    ELSE IF Last(f.llm_log).raised
    THEN LlmErrorResult(Last(f.llm_log).exc, f.tools_used,
                        PromptTokens(f.llm_log), CompletionTokens(f.llm_log))
    ELSE IF Last(f.llm_log).asked = 0
    THEN FinalResult(Last(f.llm_log).resp.content, f.tools_used,
                     PromptTokens(f.llm_log), CompletionTokens(f.llm_log))
    ELSE ExhaustedResult(f.tools_used, PromptTokens(f.llm_log), CompletionTokens(f.llm_log))

\* the frame holds what the run's own parameters and own oracle responses account
\* for, and nothing else: directives, token totals, records, turns, result
RunAlone(f) ==
    /\ f.total_tokens_in = PromptTokens(f.llm_log)
    /\ f.total_tokens_out = CompletionTokens(f.llm_log)
    /\ Len(f.oracle_calls) \in {Len(f.llm_log), Len(f.llm_log) + 1}
    /\ Len(f.oracle_calls) <= f.max_iterations
    /\ \A i \in 1..Len(f.oracle_calls) : f.oracle_calls[i] = ToolChoice(i - 1, f.query)
    /\ Len(f.tools_used) <= Len(RequestedNames(f.llm_log))
    /\ \A k \in 1..Len(f.tools_used) : f.tools_used[k].name = RequestedNames(f.llm_log)[k]
    /\ Len(f.messages) <= 2 + Len(f.llm_log) + Len(f.tools_used)
    /\ Cardinality({i \in 1..Len(f.messages) : f.messages[i].role = "tool"})
          <= Len(f.tools_used)
    /\ f.variant = "batch" => f.events = <<>>
    /\ f.variant = "stream" => f.result = NoResult
    /\ (f.variant = "batch" /\ f.pc = "done") => f.result = AloneResult(f)
    /\ (f.variant = "batch" /\ f.pc # "done") => f.result = NoResult
    /\ (f.variant = "stream" /\ f.pc = "done") =>
          /\ f.events # <<>>
          /\ Last(f.events).type = "answer" =>
                /\ Last(f.events).answer = AloneResult(f).answer
                /\ Last(f.events).mode = AloneResult(f).mode
                /\ Last(f.events).tokens_in = PromptTokens(f.llm_log)
                /\ Last(f.events).tokens_out = CompletionTokens(f.llm_log)

\* a run executing with no other run beside it
AloneRunsAreAlone == other_run.id = "none" => RunAlone(Frame)

\* C19: when two runs are interleaved at their suspension points, each run's
\* result, log, transcript and token totals are those of the run executed alone
\* against its own oracle responses; a step of one run leaves the frame of the
\* other as it was, and a resumed run finds its frame as it left it.
C19_RunIsolation ==
    /\ [](other_run.id # "none" => RunAlone(Frame) /\ RunAlone(other_run.frame))
    /\ [][/\ other_run'.id = other_run.id => other_run' = other_run
          /\ other_run'.id # other_run.id =>
                /\ Frame' = other_run.frame
                /\ other_run'.frame = Frame
         ]_vars

\* both runs have ended, each with records and tokens of its own, after being
\* suspended with a dispatch in progress
C19_Witness ==
    /\ other_run.id = "a"
    /\ pc = "done"
    /\ other_run.frame.pc = "done"
    /\ variant = "batch"
    /\ Len(tools_used) = 2
    /\ total_tokens_in = 4
    /\ Len(other_run.frame.tools_used) = 1
    /\ other_run.frame.total_tokens_in = 2
    /\ Last(other_run.frame.events).type = "answer"

\* ---- C21 ----------------------------------------------------------------------
\* the run has returned a result or yielded an answer event
TerminalTotals ==
    IF variant = "batch" THEN <<result.tokens_in, result.tokens_out>>
    ELSE <<Last(events).tokens_in, Last(events).tokens_out>>

\* C21: at every point of a run the totals tokens_in and tokens_out are the sums of
\* prompt_tokens and completion_tokens over the oracle responses received so far
\* that carried a usage report; a step never lowers them, a response without a
\* report leaves them as they were; and the final answer, the budget-exhaustion
\* result and the batch error result carry exactly these totals.
C21_TokenAccounting ==
    /\ [](/\ total_tokens_in = PromptTokens(llm_log)
          /\ total_tokens_out = CompletionTokens(llm_log)
          /\ (pc = "done" /\ llm_log # <<>>
                /\ (variant = "stream" => Last(events).type = "answer"))
             => TerminalTotals = <<total_tokens_in, total_tokens_out>>
          /\ (pc = "done" /\ llm_log = <<>> /\ variant = "batch")
             => TerminalTotals = <<0, 0>>)
    /\ [][/\ total_tokens_in' >= total_tokens_in
          /\ total_tokens_out' >= total_tokens_out
          /\ (Len(llm_log') > Len(llm_log) /\ ~Last(llm_log').usage.present)
             => UNCHANGED <<total_tokens_in, total_tokens_out>>
          /\ Len(llm_log') = Len(llm_log) => UNCHANGED <<total_tokens_in, total_tokens_out>>
         ]_vars

\* a streaming run ended after two reports, and its answer carries their sums
C21_Witness ==
    /\ variant = "stream"
    /\ pc = "done"
    /\ Len(llm_log) = 2
    /\ Last(events).type = "answer"
    /\ Last(events).tokens_in = 4
    /\ Last(events).tokens_out = 2

\* ---- C22 ----------------------------------------------------------------------
RECURSIVE CallsParsed(_, _)
\* the name and the parsed arguments of each call of a list
CallsParsed(calls, how) ==
    IF calls = <<>> THEN <<>>
    ELSE <<[name |-> Head(calls).name, args |-> ParsedArgs(Head(calls), how)]>>
         \o CallsParsed(Tail(calls), how)

RECURSIVE DeclaredCalls(_)
\* the calls the responses of a log declare: the structured calls of a response that
\* has some, else its pseudo-tag matches
DeclaredCalls(log) ==
    IF log = <<>> THEN <<>>
    ELSE (IF Head(log).raised THEN <<>>
          ELSE IF Head(log).resp.tool_calls # <<>>
          THEN CallsParsed(Head(log).resp.tool_calls, "structured")
          ELSE CallsParsed(ToolMatches(Head(log).resp.content, 1), "pseudo"))
         \o DeclaredCalls(Tail(log))

RECURSIVE DispatchedCalls(_)
\* the name and the arguments of each logged dispatch
DispatchedCalls(used) ==
    IF used = <<>> THEN <<>>
    ELSE <<[name |-> Head(used).name, args |-> Head(used).args]>>
         \o DispatchedCalls(Tail(used))

\* the last response holds neither a structured call nor a pseudo-tag
LastResponsePlain ==
    /\ llm_log # <<>>
    /\ ~Last(llm_log).raised
    /\ Last(llm_log).resp.tool_calls = <<>>
    /\ ToolMatches(Last(llm_log).resp.content, 1) = <<>>

\* the run ended in the terminal branch: the answer is the text of the response
EndedInTerminalBranch ==
    /\ pc = "done"
    /\ llm_log # <<>>
    /\ IF variant = "batch"
       THEN result.mode # "error" /\ result.answer = FinalText(Last(llm_log).resp.content)
       ELSE /\ Last(events).type = "answer"
            /\ Last(events).answer = FinalText(Last(llm_log).resp.content)

\* C22: once the calls of the responses received have been handled (the run is
\* between iterations or has ended), the dispatches made are exactly the structured
\* calls of each response that declared some and the pseudo-tag matches of each
\* response that declared none, in order; and the run ends in the terminal branch
\* only on a response with neither.
C22_ParserPriority ==
    /\ pc \in {"loop", "done"} => DispatchedCalls(tools_used) = DeclaredCalls(llm_log)
    /\ EndedInTerminalBranch => LastResponsePlain

\* the same, but for a run ended in an error, whose dispatches are the first of the
\* declared calls
ParserPriorityUntilError ==
    /\ (pc \in {"loop", "done"} /\ ~EndedInError)
          => DispatchedCalls(tools_used) = DeclaredCalls(llm_log)
    /\ IsPrefix(DispatchedCalls(tools_used), DeclaredCalls(llm_log))
    /\ EndedInTerminalBranch => LastResponsePlain
    /\ (pc = "done" /\ LastResponsePlain) => EndedInTerminalBranch

\* a response with a structured call and a pseudo-tag in its text was handled
StructuredBesidePseudoHandled ==
    /\ pc = "loop"
    /\ Len(llm_log) = 1
    /\ llm_log[1].resp.tool_calls # <<>>
    /\ ToolMatches(llm_log[1].resp.content, 1) # <<>>
    /\ Len(tools_used) = 1

\* ---- C23 ----------------------------------------------------------------------
\* the trimmed blob with every single quote replaced by a double quote
QuotesReplaced(blob) == ReplaceChar(Strip(blob), "'", "\"")

\* the mapping {query: trimmed blob, url: trimmed blob}
BlobAsQueryAndUrl(blob) ==
    JDict(<< <<K_query, JStr(Strip(blob))>>, <<K_url, JStr(Strip(blob))>> >>)

\* a pseudo-tag call is being dispatched
PseudoCallParsed == pc = "exec" /\ path = "pseudo"

\* C23: the arguments of a pseudo-tag call are the JSON parse of the raw blob if
\* that succeeds; otherwise the JSON parse of the trimmed blob with every single
\* quote replaced by a double quote if that succeeds; otherwise the mapping
\* {query: trimmed blob, url: trimmed blob}. The blob {'query': 'theft'} is parsed
\* by the second step to the mapping query -> theft.
C23_PseudoArgumentChain ==
    PseudoCallParsed =>
       /\ JsonLoads(Head(pending).arguments).ok
             => cur_args = JsonLoads(Head(pending).arguments).val
       /\ (~JsonLoads(Head(pending).arguments).ok
               /\ JsonLoads(QuotesReplaced(Head(pending).arguments)).ok)
             => cur_args = JsonLoads(QuotesReplaced(Head(pending).arguments)).val
       /\ (~JsonLoads(Head(pending).arguments).ok
               /\ ~JsonLoads(QuotesReplaced(Head(pending).arguments)).ok)
             => cur_args = BlobAsQueryAndUrl(Head(pending).arguments)
       /\ Head(pending).arguments = A_single
             => /\ ~JsonLoads(A_single).ok
                /\ cur_args = JDict(<< <<K_query, JStr(S_theft)>> >>)
       /\ Head(pending).arguments = A_bare
             => cur_args = JDict(<< <<K_query, JStr(S_theft)>>, <<K_url, JStr(S_theft)>> >>)

\* the single-quoted blob has been parsed
C23_Witness ==
    /\ PseudoCallParsed
    /\ Head(pending).arguments = A_single
    /\ cur_args = JDict(<< <<K_query, JStr(S_theft)>> >>)

\* the blob that no step parses has been made the query and the url
PseudoBlobFallbackTaken ==
    /\ PseudoCallParsed
    /\ Head(pending).arguments = A_bare

\* ---- C24 ----------------------------------------------------------------------
\* rag_search was called with a mapping and the retrieval oracle returned results
RetrievalReturned ==
    /\ tool_call.name = "rag_search"
    /\ IsDict(tool_call.args)
    /\ ~tool_call.out.rag_raises
    /\ tool_call.out.docs # <<>>

\* C24: for every non-empty list the retrieval oracle returns, the dispatcher's
\* result is a success whose data list has min(3, number of results) records, the
\* oracle's first results in the oracle's order, with indices 1, 2, ... and with the
\* first 800 characters of each text, so at most 800 characters.
C24_RetrievalResultShape ==
    RetrievalReturned =>
       /\ ~tool_call.raw.raised
       /\ tool_call.raw.result.status = "success"
       /\ Len(tool_call.raw.result.data.items) = Min(3, Len(tool_call.out.docs))
       /\ \A i \in 1..Len(tool_call.raw.result.data.items) :
             /\ tool_call.raw.result.data.items[i].index = i
             /\ tool_call.raw.result.data.items[i].ref = tool_call.out.docs[i].section
             /\ tool_call.raw.result.data.items[i].len = Min(800, tool_call.out.docs[i].text_len)
             /\ tool_call.raw.result.data.items[i].len <= 800

\* four results, the third longer than 800 characters, gave three records
C24_Witness ==
    /\ RetrievalReturned
    /\ Len(tool_call.out.docs) = 4
    /\ tool_call.out.docs[3].text_len = 801
    /\ Len(tool_call.raw.result.data.items) = 3
    /\ tool_call.raw.result.data.items[3].len = 800

\* ---- C25 ----------------------------------------------------------------------
\* C25: a read_url call that returns has status blocked if and only if its URL
\* fails the trusted-domain check; a URL that passes the check and whose page
\* fetch fails is not reported as blocked.
C25_BlockedOnlyWhenUntrusted ==
    (tool_call.name = "read_url" /\ IsDict(tool_call.args) /\ ~tool_call.raw.raised) =>
       (tool_call.raw.result.status = "blocked"
          <=> ~is_trusted_domain(DictGet(tool_call.args, K_url)))

\* ---- C26 ----------------------------------------------------------------------
\* the label is high exactly for grounded, medium exactly for hybrid, else low
LabelOfMode(mode, confidence) ==
    /\ confidence = "high" <=> mode = "grounded"
    /\ confidence = "medium" <=> mode = "hybrid"
    /\ confidence = "low" <=> mode \notin {"grounded", "hybrid"}

\* C26: in the /ask response and in the streaming answer event the confidence is
\* high exactly when the mode is grounded, medium exactly when it is hybrid, and
\* low for every other mode: fallback, the budget-exhaustion result, and error.
C26_ConfidenceLabel ==
    /\ (variant = "batch" /\ pc = "done") =>
          /\ ask_question(result).mode = result.mode
          /\ LabelOfMode(ask_question(result).mode, ask_question(result).confidence)
    /\ \A i \in 1..Len(events) :
          events[i].type = "answer" => LabelOfMode(events[i].mode, events[i].confidence)
    /\ EndedExhausted =>
          IF variant = "batch" THEN ask_question(result).confidence = "low"
          ELSE Last(events).confidence = "low"

\* a batch run ended in an error, and /ask labels it low
C26_Witness ==
    /\ variant = "batch"
    /\ pc = "done"
    /\ result.mode = "error"
    /\ Len(tools_used) = 1
    /\ ask_question(result).confidence = "low"

\* a streaming run answered after a web search, and labels it medium
HybridLabelledMedium ==
    /\ variant = "stream"
    /\ pc = "done"
    /\ Last(events).type = "answer"
    /\ Last(events).mode = "hybrid"
    /\ Last(events).confidence = "medium"

\* ---- C27 ----------------------------------------------------------------------
PromptOfMode ==
    [grounded |-> "SYSTEM_PROMPT_GROUNDED", hybrid |-> "SYSTEM_PROMPT_HYBRID",
     fallback |-> "SYSTEM_PROMPT_FALLBACK"]

\* the top local score is at or above the cutoff
TopScoreHigh ==
    explain_call.local # <<>> /\ explain_call.local[1].score >= CONFIDENCE_THRESHOLD

\* C27: explain_with_llm selects the grounded prompt exactly when the top local
\* score is at or above the cutoff and the request is not hybrid, the hybrid prompt
\* only when web results are present, and the fallback prompt in every other case,
\* empty local and web results included; and the mode it returns names the prompt
\* that was used.
C27_ThresholdRouting ==
    explain_call.called =>
       /\ explain_call.out.prompt = PromptOfMode.grounded
             <=> (TopScoreHigh /\ explain_call.source_mode # "hybrid")
       /\ explain_call.out.prompt = PromptOfMode.hybrid => ~NoWeb(explain_call.web)
       /\ (explain_call.local = <<>> /\ NoWeb(explain_call.web))
             => explain_call.out.prompt = PromptOfMode.fallback
       /\ explain_call.out.prompt \in
             {PromptOfMode.grounded, PromptOfMode.hybrid, PromptOfMode.fallback}
       /\ explain_call.out.sent => explain_call.out.prompt = PromptOfMode[explain_call.out.mode]

\* what the routing does: the hybrid prompt for every hybrid request that has any
\* result, local or web; the mode of the prompt when the oracle answered
RoutingAsCoded ==
    explain_call.called =>
       /\ explain_call.out.prompt = PromptOfMode.grounded
             <=> (TopScoreHigh /\ explain_call.source_mode # "hybrid")
       /\ explain_call.out.prompt = PromptOfMode.hybrid
             <=> (explain_call.source_mode = "hybrid"
                    /\ (explain_call.local # <<>> \/ ~NoWeb(explain_call.web)))
       /\ (explain_call.local = <<>> /\ NoWeb(explain_call.web))
             => explain_call.out.prompt = PromptOfMode.fallback
       /\ explain_call.out.answered
             => explain_call.out.prompt = PromptOfMode[explain_call.out.mode]
       /\ ~explain_call.out.answered => explain_call.out.mode = "fallback"

\* a hybrid request with local results and no web results
HybridWithoutWeb ==
    /\ explain_call.called
    /\ explain_call.source_mode = "hybrid"
    /\ explain_call.local # <<>>
    /\ explain_call.web.none
    /\ explain_call.out.prompt = PromptOfMode.hybrid

\* ---- C28 ----------------------------------------------------------------------
\* callers that passed the `browser is None` test and have not yet set the handle
Launching == {t \in Callers : start_tasks.at[t] \in {"playwright", "launch"}}

\* C28: under any interleaving of concurrent search / read_page calls on the
\* process-wide BrowserSearch, two callers never both pass the `browser is None`
\* test, at most one launched browser is open while the handle is set, and every
\* open browser is the one the handle refers to.
C28_SingleLaunch ==
    start_tasks.called =>
       /\ Cardinality(Launching) <= 1
       /\ Cardinality(start_tasks.open) <= 1
       /\ \A b \in start_tasks.open : b = start_tasks.browser

\* ---- C29 ----------------------------------------------------------------------
\* the requests of an IP forwarded in the 60 seconds that begin at time s
ForwardedFrom(ip, s) ==
    {j \in 1..Len(rate_limit.forwarded[ip]) :
        s <= rate_limit.forwarded[ip][j] /\ rate_limit.forwarded[ip][j] < s + 60}

\* C29: for every client IP and arrival times that never go backwards, at most
\* `limit` requests are forwarded within any 60 seconds; a request rejected with
\* 429 is not recorded, so only forwarded requests count towards the next
\* admission; and a request of one IP leaves the record of every other IP alone.
C29_RateWindow ==
    /\ [](rate_limit.called =>
             \A ip \in ClientIps :
                /\ \A i \in 1..Len(rate_limit.forwarded[ip]) :
                      Cardinality(ForwardedFrom(ip, rate_limit.forwarded[ip][i])) <= Limit
                /\ Kept(rate_limit.requests[ip], rate_limit.now)
                      = Kept(rate_limit.forwarded[ip], rate_limit.now))
    /\ [][rate_limit.called =>
             /\ rate_limit'.now >= rate_limit.now
             /\ rate_limit'.last.status = 429 =>
                   /\ rate_limit'.forwarded = rate_limit.forwarded
                   /\ rate_limit'.requests[rate_limit'.last.ip]
                         = Kept(rate_limit.requests[rate_limit'.last.ip], rate_limit'.now)
             /\ rate_limit'.last.status = 200 =>
                   Len(Kept(rate_limit.forwarded[rate_limit'.last.ip], rate_limit'.now)) < Limit
             /\ \A ip \in ClientIps \ {rate_limit'.last.ip} :
                   /\ rate_limit'.requests[ip] = rate_limit.requests[ip]
                   /\ rate_limit'.forwarded[ip] = rate_limit.forwarded[ip]
         ]_vars

\* an IP at its limit was rejected 59 seconds after its first request and admitted
\* one second later, while the other IP was served
C29_Witness ==
    /\ rate_limit.called
    /\ rate_limit.rejected >= 1
    /\ rate_limit.now = 60
    /\ rate_limit.last = [ip |-> "unknown", status |-> 200]
    /\ Len(rate_limit.forwarded["unknown"]) = Limit + 1

\* ---- C30 ----------------------------------------------------------------------
\* the place of a tool in the tool menu
ToolRank(name) == CHOOSE k \in 1..Len(TOOLS) : TOOLS[k] = name

\* the tools whose tags a text holds
TagNames(content) ==
    {content[i].name : i \in {j \in 1..Len(content) : content[j].t = "open"}}

RECURSIVE ArgsOf(_, _)
\* the arguments of the records of one tool, in the order of the log
ArgsOf(recs, name) ==
    IF recs = <<>> THEN <<>>
    ELSE (IF Head(recs).name = name THEN <<Head(recs).args>> ELSE <<>>)
         \o ArgsOf(Tail(recs), name)

RECURSIVE BlobsParsed(_)
\* the parsed blobs of the matches of one tool, in the order of the text
BlobsParsed(matches) ==
    IF matches = <<>> THEN <<>>
    ELSE <<PseudoArgs(Head(matches).arguments)>> \o BlobsParsed(Tail(matches))

\* the last k records of the log
LastRecords(k) == SubSeq(tools_used, Len(tools_used) - k + 1, Len(tools_used))

\* records grouped by tool in menu order, each tool's in the order of the text
GroupedByTool(content, recs) ==
    /\ \A i \in 1..(Len(recs) - 1) : ToolRank(recs[i].name) <= ToolRank(recs[i + 1].name)
    /\ \A k \in 1..Len(TOOLS) :
          ArgsOf(recs, TOOLS[k]) = BlobsParsed(FindIter(content, TOOLS[k], 1))

\* the last two turns are the response text and one user turn with k results
FedBackAsOneTurn(k) ==
    /\ Len(messages) >= 2
    /\ messages[Len(messages) - 1].role = "assistant"
    /\ messages[Len(messages) - 1].kind = "content"
    /\ Last(messages).role = "user"
    /\ Last(messages).kind = "tool_output"
    /\ Len(Last(messages).results) = k
    /\ \A i \in 1..k : Last(messages).results[i].status = LastRecords(k)[i].result

\* the last response held pseudo-tags of several tools, and its handling is over
SeveralToolsHandled ==
    /\ pc \in {"loop", "done"}
    /\ llm_log # <<>>
    /\ ~Last(llm_log).raised
    /\ Last(llm_log).resp.tool_calls = <<>>
    /\ Cardinality(TagNames(Last(llm_log).resp.content)) >= 2

\* C30: when a response text holds pseudo-tag calls for several tools, they are
\* dispatched and logged grouped by tool in the order rag_search, web_search,
\* read_url, the matches of one tool in their order in the text, whatever the order
\* of the tags in the text; and their results are fed back as one user turn.
C30_PseudoDispatchOrder ==
    SeveralToolsHandled =>
       /\ Len(tools_used) >= Len(ToolMatches(Last(llm_log).resp.content, 1))
       /\ GroupedByTool(Last(llm_log).resp.content,
                        LastRecords(Len(ToolMatches(Last(llm_log).resp.content, 1))))
       /\ FedBackAsOneTurn(Len(ToolMatches(Last(llm_log).resp.content, 1)))

\* the same for the runs that have not ended in an error
PseudoOrderUnlessError ==
    (SeveralToolsHandled /\ ~EndedInError) =>
       /\ Len(tools_used) >= Len(ToolMatches(Last(llm_log).resp.content, 1))
       /\ GroupedByTool(Last(llm_log).resp.content,
                        LastRecords(Len(ToolMatches(Last(llm_log).resp.content, 1))))
       /\ FedBackAsOneTurn(Len(ToolMatches(Last(llm_log).resp.content, 1)))

\* a text with the web_search tag before the rag_search tag was handled
TagsOutOfMenuOrderHandled ==
    /\ SeveralToolsHandled
    /\ ~EndedInError
    /\ Last(llm_log).resp.content[2].name = "web_search"
    /\ Len(tools_used) = 2
    /\ tools_used[1].name = "rag_search"
    /\ tools_used[2].name = "web_search"
=============================================================================
